---- MODULE Spec2Model ----
(***************************************************************************)
(* Model of the NEAR event-watching pipeline:                              *)
(*   EventWatcher  (subscription registry, cron schedule, wiring)          *)
(*   BlockPoller   (per-subscription cursor, in-flight flag, dedup set)    *)
(*   EventProcessor (AI sampling, response transaction)                    *)
(* Every await of the source is a step boundary: an action is the code     *)
(* that runs between two suspension points of one logical task.            *)
(***************************************************************************)
EXTENDS Integers, Sequences, FiniteSets, Bags, TLC

\* ------------------------------------------------------------------ bounds
\* highest final block height the chain reaches
MaxHeight == 2
\* number of createSubscription calls over a run (each reads the clock)
MaxWatch == 2
\* pollForEvents executions started over a run
MaxPolls == 2
\* receipts handed to extractEventsFromReceipt over a run of SpecReceipts
MaxReceipts == 3
\* processEvent calls over a run of SpecProcessing
MaxEvents == 2
\* minutes the clock of SpecProcessing runs
MaxTime == 3

\* ------------------------------------------------------- program constants
BATCH_SIZE == 5
DEDUP_HIGH_WATER == 10000
DEDUP_KEEP == 5000
\* EventProcessor.DEFAULT_TIMEOUT, in minutes
DEFAULT_TIMEOUT == 2

\* ----------------------------------------------------------------- inputs
Contracts == {"c1", "c2"}
EventNames == {"ping"}

generateSubscriptionId(contractId, eventName) == contractId \o ":" \o eventName

Ids == {generateSubscriptionId(c, e) : c \in Contracts, e \in EventNames}

VARIABLES
    contracts,         \* the contract ids the callers of this run name
    observe,           \* the operations whose outcome this run records in last
    finalHeight,       \* chain: height of the latest final block
    authReady,         \* AuthManager: isInitialized && account !== null
    isInitialized,     \* EventWatcher.isInitialized
    account,           \* BlockPoller.account / EventProcessor.account is set
    calls,             \* watchEvent calls suspended in initialize()
    clock,             \* Date.now(), read by createSubscription
    subscriptions,     \* EventWatcher.subscriptions : id -> record
    jobs,              \* node-cron tasks alive : handle -> [id, running]
    processingStates,  \* BlockPoller.processingStates : id -> state object
    states,            \* the BlockProcessingState objects still referenced
    polls,             \* pollForEvents executions in progress
    started,           \* number of pollForEvents executions started so far
    tasks,             \* processEvent executions in progress
    stopped,           \* ids stopWatching returned true for, not watched since
    handling,          \* extractEventsFromReceipt executions in progress
    txLog,             \* per transaction hash: receipts handled, log scans
    parsing,           \* the last parseEventLog call: arguments and outcome
    dateNow,           \* Date.now() of the EventProcessor, in minutes
    runs,              \* processEvent executions, one await at a time
    ledger,            \* per event: times found, function calls, successes
    wired,             \* the listeners of setupComponentHandlers are attached
    sweep,             \* the stopAllWatching / cleanup call in progress
    stats,             \* EventWatcher.stats and EventProcessor.processingStats
    last               \* what the last step returned and emitted

cfg == <<contracts, observe>>

rcpt == <<handling, txLog, parsing>>

exec == <<dateNow, runs, stats>>

svc == <<wired, sweep>>

env == <<cfg, ledger>>

vars == <<contracts, observe, finalHeight, authReady, isInitialized, account,
          calls, clock, subscriptions, jobs, processingStates, states, polls,
          started, tasks, stopped, handling, txLog, parsing, dateNow, runs,
          ledger, wired, sweep, stats, last>>

\* ---------------------------------------------------------------- helpers
Range(f) == {f[x] : x \in DOMAIN f}

Restrict(f, S) == [x \in S |-> f[x]]

Put(f, k, v) == [x \in DOMAIN f \cup {k} |-> IF x = k THEN v ELSE f[x]]

Drop(f, k) == [x \in DOMAIN f \ {k} |-> f[x]]

\* the smallest reference not in use (a new object / handle)
Fresh(S) == CHOOSE n \in 1..(Cardinality(S) + 1) :
                n \notin S /\ \A m \in 1..(n - 1) : m \in S

NoCall ==
    [pc |-> "idle", contractId |-> "", eventName |-> "", res |-> "",
     overlap |-> FALSE]

Result(op, id, res, out) ==
    [op |-> op, id |-> id, res |-> res, out |-> out,
     blocksProcessed |-> 0, eventsFound |-> 0, first |-> FALSE, cur |-> 0,
     cursor |-> 0]

Quiet == Result("", "", "", {})

\* parseEventLog has not been called
NoParse == [called |-> FALSE]

\* no stopAllWatching and no cleanup is running
NoSweep == [op |-> "", active |-> << >>, todo |-> << >>, done |-> << >>]

\* the counters of both components after construction
NoStats ==
    [watcher |-> [totalEventsDetected |-> 0, totalEventsProcessed |-> 0,
                  totalEventsSuccessful |-> 0, totalEventsFailed |-> 0,
                  totalProcessingTime |-> 0],
     processor |-> [totalProcessed |-> 0, successful |-> 0, failed |-> 0,
                    totalProcessingTime |-> 0]]

\* the record of a step: kept for the operations under observation only
Observed(r) ==
    IF <<r.op, "*">> \in observe \/ <<r.op, r.res>> \in observe
    THEN r ELSE Quiet

Last(op, id, res, out) == Observed(Result(op, id, res, out))

\* state objects no map entry and no running poll refers to are garbage
Collect(sts, map, pls) ==
    Restrict(sts, (Range(map) \cup {pls[p].st : p \in DOMAIN pls})
                      \cap DOMAIN sts)

TypeOK ==
    /\ contracts \subseteq Contracts
    /\ finalHeight \in Nat \ {0}
    /\ authReady \in BOOLEAN /\ isInitialized \in BOOLEAN /\ account \in BOOLEAN
    /\ clock \in 1..(MaxWatch + 1)
    /\ DOMAIN subscriptions \subseteq Ids
    /\ DOMAIN processingStates \subseteq Ids
    /\ stopped \subseteq Ids

\* the watcher after its construction, before any call (attached), or after
\* cleanup() was called on it then (not attached)
InitWith(named, ops, attached) ==
    /\ contracts = named
    /\ observe = ops
    /\ finalHeight = 1
    /\ authReady = FALSE
    /\ isInitialized = FALSE
    /\ account = FALSE
    /\ calls = << NoCall >>
    /\ clock = 1
    /\ subscriptions = <<>>
    /\ jobs = <<>>
    /\ processingStates = <<>>
    /\ states = <<>>
    /\ polls = <<>>
    /\ started = 0
    /\ tasks = EmptyBag
    /\ stopped = {}
    /\ handling = EmptyBag
    /\ parsing = NoParse
    /\ txLog = <<>>
    /\ dateNow = 0
    /\ runs = <<>>
    /\ ledger = <<>>
    /\ wired = attached
    /\ sweep = NoSweep
    /\ stats = NoStats
    /\ last = Quiet

InitObserving(ops) == InitWith({"c1"}, ops, TRUE)

\* ------------------------------------------------------------------ chain
\* A new final block is produced, up to a height of limit.
ProduceBlock(limit) ==
    /\ finalHeight < limit
    /\ finalHeight' = finalHeight + 1
    /\ last' = Quiet
    /\ UNCHANGED <<env, svc, rcpt, exec, authReady, isInitialized, account,
                   calls, clock, subscriptions, jobs, processingStates,
                   states, polls, started, tasks, stopped>>

BlockProduced == ProduceBlock(MaxHeight)

\* ----------------------------------------------------------- EventWatcher
\* a faulty hasSubscription: looks the contract id up instead of the
\* subscription id
hasSubscriptionByContract(contractId, eventName) ==
    contractId \in DOMAIN subscriptions

\* a faulty duplicate check that finds no subscription
hasNoSubscription(contractId, eventName) == FALSE

hasSubscription(contractId, eventName) ==
    generateSubscriptionId(contractId, eventName) \in DOMAIN subscriptions

isWatching(contractId, eventName) == hasSubscription(contractId, eventName)

\* a faulty isProcessing that sees the flag set whatever it is
flagStuck(id) == TRUE

\* a faulty isProcessing that never sees the flag
flagUnseen(id) == FALSE

\* BlockPoller.isProcessing(subscriptionId)
isProcessing(id) ==
    IF id \in DOMAIN processingStates
    THEN states[processingStates[id]].isProcessing
    ELSE FALSE

\* a faulty initial record: created with the in-flight flag already set
NewStateBusy ==
    [lastBlockHeight |-> 0, isProcessing |-> TRUE,
     processedTransactionIds |-> <<>>, blocks |-> <<>>]

\* the record of BlockPoller.initializeSubscription; blocks is the history
\* of the heights processBlock was called for with this state, in call order
NewState ==
    [lastBlockHeight |-> 0, isProcessing |-> FALSE,
     processedTransactionIds |-> <<>>, blocks |-> <<>>]

\* the record of createSubscription; cronJob 0, lastEventAt 0: undefined
NewSubscription(contractId, eventName, now) ==
    [id |-> generateSubscriptionId(contractId, eventName),
     contractId |-> contractId, eventName |-> eventName,
     isActive |-> TRUE, createdAt |-> now, lastEventAt |-> 0, cronJob |-> 0]

PendingCalls == {s \in DOMAIN calls : calls[s].pc # "idle"}

\* the record of a watchEvent call that has returned or thrown: the slot is
\* free again; the runs that observe the calls keep the request and its answer
Answered(call, res) ==
    IF <<"calls", "*">> \in observe
    THEN [call EXCEPT !.pc = "idle", !.res = res]
    ELSE NoCall

\* the calls for the pair that are suspended in watchEvent while no
\* subscription for the pair is registered, in the runs that observe the calls
Suspended(contractId, eventName) ==
    IF <<"calls", "*">> \in observe /\ ~hasSubscription(contractId, eventName)
    THEN {t \in PendingCalls : /\ calls[t].contractId = contractId
                               /\ calls[t].eventName = eventName}
    ELSE {}

\* watchEvent up to its first suspension: await this.initialize()
WatchEvent(s, contractId, eventName) ==
    /\ calls[s].pc = "idle"
    /\ clock + Cardinality(PendingCalls) <= MaxWatch
    /\ LET peers == Suspended(contractId, eventName)
       IN calls' =
             [t \in DOMAIN calls |->
                 IF t = s
                 THEN [pc |-> IF isInitialized THEN "body"
                              ELSE IF authReady THEN "validate" ELSE "auth",
                       contractId |-> contractId, eventName |-> eventName,
                       res |-> "", overlap |-> peers # {}]
                 ELSE IF t \in peers
                 THEN [calls[t] EXCEPT !.overlap = TRUE]
                 ELSE calls[t]]
    /\ last' = Quiet
    /\ UNCHANGED <<env, svc, rcpt, exec, finalHeight, authReady, isInitialized,
                   account, clock, subscriptions, jobs, processingStates,
                   states, polls, started, tasks, stopped>>

\* initialize(): authManager.initialize() settles
AuthDone(s, ok) ==
    /\ calls[s].pc = "auth"
    /\ IF ok
       THEN /\ authReady' = TRUE
            /\ calls' = [calls EXCEPT ![s].pc = "validate"]
            /\ last' = Quiet
       ELSE /\ authReady' = authReady
            /\ calls' = [calls EXCEPT ![s] = Answered(@, "initFailed")]
            /\ last' = Last("watchEvent",
                            generateSubscriptionId(calls[s].contractId,
                                                   calls[s].eventName),
                            "initFailed", {})
    /\ UNCHANGED <<env, svc, rcpt, exec, finalHeight, isInitialized, account,
                   clock, subscriptions, jobs, processingStates, states,
                   polls, started, tasks, stopped>>

\* initialize(): authManager.validateConnection() settles; on success the
\* account is handed to the poller and the processor
ValidateDone(s, valid) ==
    /\ calls[s].pc = "validate"
    /\ IF valid
       THEN /\ account' = TRUE
            /\ isInitialized' = TRUE
            /\ calls' = [calls EXCEPT ![s].pc = "body"]
            /\ last' = Quiet
       ELSE /\ UNCHANGED <<account, isInitialized>>
            /\ calls' = [calls EXCEPT ![s] = Answered(@, "initFailed")]
            /\ last' = Last("watchEvent",
                            generateSubscriptionId(calls[s].contractId,
                                                   calls[s].eventName),
                            "initFailed", {})
    /\ UNCHANGED <<env, svc, rcpt, exec, finalHeight, authReady, clock,
                   subscriptions, jobs, processingStates, states, polls,
                   started, tasks, stopped>>

\* BlockPoller.initializeSubscription: the map and the objects afterwards
initializeSubscription(id) ==
    IF id \in DOMAIN processingStates
    THEN [map |-> processingStates, sts |-> states]
    ELSE LET ref == Fresh(DOMAIN states)
         IN [map |-> Put(processingStates, id, ref),
             sts |-> Put(states, ref, NewState)]

\* a faulty removeSubscription of the poller that clears the whole map
removeEverySubscription(map, id) == << >>

\* a faulty removeSubscription of the poller: the entry stays
keepProcessingState(map, id) == map

\* BlockPoller.removeSubscription: the map afterwards
BlockPoller_removeSubscription(map, id) == Drop(map, id)

\* EventWatcher.removeSubscription: the registry and the schedules afterwards
removeSubscription(subs, jbs, id) ==
    IF id \notin DOMAIN subs
    THEN [ok |-> FALSE, subs |-> subs, jobs |-> jbs]
    ELSE [ok |-> TRUE, subs |-> Drop(subs, id),
          jobs |-> Restrict(jbs, DOMAIN jbs \ {subs[id].cronJob})]

\* watchEvent after initialize() has returned: the duplicate check, then
\* createSubscription, initializeSubscription, startPolling in one run;
\* cronOK = FALSE is cron.schedule throwing on the cron expression, which
\* the catch block answers with removeSubscription of the watcher
WatchBody(s, cronOK) ==
    /\ calls[s].pc = "body"
    /\ LET c == calls[s].contractId
           e == calls[s].eventName
           id == generateSubscriptionId(c, e)
           sub == NewSubscription(c, e, clock)
           created == Put(subscriptions, id, sub)
           init == initializeSubscription(id)
           h == Fresh(DOMAIN jobs)
           undo == removeSubscription(created, jobs, id)
       IN IF hasSubscription(c, e)
          THEN /\ last' = Last("watchEvent", id, "duplicate", {})
               /\ calls' = [calls EXCEPT ![s] = Answered(@, "duplicate")]
               /\ UNCHANGED <<clock, subscriptions, jobs, processingStates,
                              states, stopped>>
          ELSE /\ clock' = clock + 1
               /\ processingStates' = init.map
               /\ states' = init.sts
               /\ calls' = [calls EXCEPT ![s] =
                               Answered(@, IF cronOK THEN "ok" ELSE "failed")]
               /\ IF cronOK
                  THEN /\ subscriptions' = [created EXCEPT ![id].cronJob = h]
                       /\ jobs' = Put(jobs, h,
                                      [id |-> id, contractId |-> c,
                                       eventName |-> e, running |-> TRUE])
                       /\ stopped' = stopped \ {id}
                       /\ last' = Last("watchEvent", sub.id, "ok",
                                       {<<"watcher:started", id>>})
                  ELSE /\ subscriptions' = undo.subs
                       /\ jobs' = undo.jobs
                       /\ last' = Last("watchEvent", id, "failed", {})
                       /\ UNCHANGED stopped
    /\ UNCHANGED <<env, svc, rcpt, exec, started, finalHeight, authReady,
                   isInitialized, account, polls, tasks>>

\* the answer of stopWatching: true if the subscription was found and
\* nothing threw
stopped_ok(contractId, eventName, fail) ==
    /\ hasSubscription(contractId, eventName)
    /\ fail = "none"

\* stopWatching from its entry to its return (it awaits nothing); fail =
\* "cron" is cronJob.stop() throwing into the catch block
stopWatching(contractId, eventName, fail) ==
    LET id == generateSubscriptionId(contractId, eventName)
    IN IF ~hasSubscription(contractId, eventName)
       THEN /\ fail = "none"
            /\ last' = Last("stopWatching", id, "false", {})
            /\ UNCHANGED <<subscriptions, jobs, processingStates, states,
                           stopped>>
       ELSE IF fail = "cron" /\ subscriptions[id].cronJob # 0
       THEN /\ last' = Last("stopWatching", id, "false",
                            {<<"watcher:error", id>>})
            /\ UNCHANGED <<subscriptions, jobs, processingStates, states,
                           stopped>>
       ELSE /\ fail = "none"
            /\ LET halted == Restrict(jobs, DOMAIN jobs
                                             \ {subscriptions[id].cronJob})
                   rm == removeSubscription(subscriptions, halted, id)
               IN /\ subscriptions' = rm.subs
                  /\ jobs' = rm.jobs
            /\ processingStates' =
                   BlockPoller_removeSubscription(processingStates, id)
            /\ states' = Collect(states, processingStates', polls)
            /\ stopped' = stopped \cup {id}
            /\ last' = Last("stopWatching", id, "true",
                            {<<"watcher:stopped", id>>})

\* stopWatching called by a caller of the watcher
StopWatching(contractId, eventName, fail) ==
    /\ stopWatching(contractId, eventName, fail)
    /\ UNCHANGED <<env, svc, rcpt, exec, started, finalHeight, authReady,
                   isInitialized, account, calls, clock, polls, tasks>>

\* the answer of the stop tool to its caller; res is what the awaited
\* stopWatching did: it returned true, returned false, or threw
execute(res) ==
    CASE res = "true" -> "Successfully stopped watching"
      [] res = "false" -> "No active subscription found"
      [] OTHER -> "Failed to stop watching events"

\* Array.from(subscriptions.values()): the records in insertion order, which
\* is the order of their creation
RECURSIVE values(_)
values(S) ==
    IF S = {} THEN << >>
    ELSE LET first == CHOOSE x \in S : \A y \in S : x.createdAt <= y.createdAt
         IN << first >> \o values(S \ {first})

getActiveSubscriptions(subs) ==
    values({sub \in Range(subs) : sub.isActive})

\* a faulty loop of stopAllWatching: the first stop that fails ends it
abandon(todo, ok) == IF ok THEN Tail(todo) ELSE << >>

\* the loop of stopAllWatching after one stopWatching: the catch block goes
\* on with the next subscription
continue(todo, ok) == Tail(todo)

\* one turn of the loop of stopAllWatching: stopWatching for the next
\* subscription of the snapshot, up to the await of its promise
stopNext(call, fail) ==
    LET sub == Head(call.todo)
        ok == stopped_ok(sub.contractId, sub.eventName, fail)
    IN /\ stopWatching(sub.contractId, sub.eventName, fail)
       /\ sweep' = [call EXCEPT !.todo = continue(@, ok),
                                !.done = Append(@, [id |-> sub.id,
                                                    createdAt |-> sub.createdAt,
                                                    ok |-> ok])]

\* stopAllWatching (op = "stopAllWatching") or cleanup (op = "cleanup") is
\* called: the snapshot of the active subscriptions and the first
\* stopWatching
StopAllWatching(op, fail) ==
    /\ sweep = NoSweep
    /\ LET activeSubscriptions == getActiveSubscriptions(subscriptions)
           call == [op |-> op, active |-> activeSubscriptions,
                    todo |-> activeSubscriptions, done |-> << >>]
       IN IF activeSubscriptions = << >>
          THEN /\ fail = "none"
               /\ sweep' = call
               /\ last' = Quiet
               /\ UNCHANGED <<subscriptions, jobs, processingStates, states,
                              stopped>>
          ELSE stopNext(call, fail)
    /\ UNCHANGED <<env, wired, rcpt, exec, started, finalHeight, authReady,
                   isInitialized, account, calls, clock, polls, tasks>>

\* the loop of stopAllWatching resumes after an await
StopAllNext(fail) ==
    /\ sweep.todo # << >>
    /\ stopNext(sweep, fail)
    /\ UNCHANGED <<env, wired, rcpt, exec, started, finalHeight, authReady,
                   isInitialized, account, calls, clock, polls, tasks>>

\* stopAllWatching returns to its caller
StopAllReturns ==
    /\ sweep.op = "stopAllWatching"
    /\ sweep.todo = << >>
    /\ sweep' = NoSweep
    /\ last' = Last("stopAllWatching", "", "returned", {})
    /\ UNCHANGED <<env, wired, rcpt, exec, started, finalHeight, authReady,
                   isInitialized, account, calls, clock, subscriptions, jobs,
                   processingStates, states, polls, tasks, stopped>>

\* cleanup after stopAllWatching has returned: BlockPoller.cleanup,
\* EventProcessor.cleanup, subscriptions.clear(), removeAllListeners
CleanupReturns ==
    /\ sweep.op = "cleanup"
    /\ sweep.todo = << >>
    /\ sweep' = NoSweep
    /\ processingStates' = << >>
    /\ states' = Collect(states, processingStates', polls)
    /\ account' = FALSE
    /\ subscriptions' = << >>
    /\ isInitialized' = FALSE
    /\ wired' = FALSE
    /\ last' = Last("cleanup", "", "returned", {})
    /\ UNCHANGED <<env, rcpt, exec, started, finalHeight, authReady, calls,
                   clock, jobs, polls, tasks, stopped>>

\* a faulty cronJob.stop() / start() that leaves the task as it is
StayRunning(h, on) == jobs

SetRunning(h, on) ==
    IF h \in DOMAIN jobs THEN [jobs EXCEPT ![h].running = on] ELSE jobs

pauseWatching(contractId, eventName) ==
    LET id == generateSubscriptionId(contractId, eventName)
    IN /\ IF ~hasSubscription(contractId, eventName)
          THEN /\ last' = Last("pauseWatching", id, "false", {})
               /\ UNCHANGED <<subscriptions, jobs>>
          ELSE /\ subscriptions' = [subscriptions EXCEPT ![id].isActive = FALSE]
               /\ jobs' = SetRunning(subscriptions[id].cronJob, FALSE)
               /\ last' = Last("pauseWatching", id, "true", {})
       /\ UNCHANGED <<env, svc, rcpt, exec, finalHeight, authReady,
                      isInitialized, account, calls, clock, processingStates,
                      states, polls, started, tasks, stopped>>

resumeWatching(contractId, eventName) ==
    LET id == generateSubscriptionId(contractId, eventName)
    IN /\ IF ~hasSubscription(contractId, eventName)
          THEN /\ last' = Last("resumeWatching", id, "false", {})
               /\ UNCHANGED <<subscriptions, jobs>>
          ELSE /\ subscriptions' = [subscriptions EXCEPT ![id].isActive = TRUE]
               /\ jobs' = SetRunning(subscriptions[id].cronJob, TRUE)
               /\ last' = Last("resumeWatching", id, "true", {})
       /\ UNCHANGED <<env, svc, rcpt, exec, finalHeight, authReady,
                      isInitialized, account, calls, clock, processingStates,
                      states, polls, started, tasks, stopped>>

\* ------------------------------------------------------- chain contents
\* The receipts of block h addressed to contractId, in chunk order, each
\* with the transaction hash the explorer resolves it to.
ReceiptsAt(h, contractId) ==
    IF contractId = "c1" /\ h >= 2
    THEN << [receipt_id |-> <<contractId, h>>, tx |-> h \div 2] >>
    ELSE IF contractId = "c2" /\ h % 2 = 0
    THEN << [receipt_id |-> <<contractId, h>>, tx |-> h] >>
    ELSE << >>

\* The request ids of the logs of transaction tx that parse as an event
\* named eventName.
EventsOfTx(tx, eventName) == IF eventName = "ping" THEN << tx >> ELSE << >>

Outcomes == {"ok", "blockFail", "chunkFail", "lookupFail", "statusFail"}

\* ------------------------------------------------------------ BlockPoller
Min(a, b) == IF a <= b THEN a ELSE b

\* a faulty anchoring: a fresh cursor is set to the current height itself
AnchorAtCurrent(lastBlockHeight, currentHeight) ==
    IF lastBlockHeight = 0 THEN currentHeight ELSE lastBlockHeight

\* a faulty anchoring: every poll re-anchors, fresh cursor or not
AnchorEveryPoll(lastBlockHeight, currentHeight) == currentHeight - 1

\* a faulty loop that takes the whole range as one batch
wholeRange(blockHeight, currentHeight) == currentHeight

\* the last height of the batch that starts at blockHeight
endBatch(blockHeight, currentHeight) ==
    Min(blockHeight + BATCH_SIZE - 1, currentHeight)

\* a faulty range that starts at the cursor itself
startAtCursor(lastBlockHeight) == lastBlockHeight

\* the first height of the range of a poll
startHeight(lastBlockHeight) == lastBlockHeight + 1

\* the history after processBlock has been called for lo..hi in ascending
\* order; kept by the runs that observe the calls
Called(blocks, lo, hi) ==
    IF <<"blocks", "*">> \in observe
    THEN blocks \o [k \in 1..(hi - lo + 1) |-> lo + k - 1]
    ELSE blocks

\* getCurrentBlock: the cursor after the anchoring step
Anchor(lastBlockHeight, currentHeight) ==
    IF lastBlockHeight = 0 THEN currentHeight - 1 ELSE lastBlockHeight

\* a faulty insertion: the hash is tested but never recorded
AddTxNot(seen, tx) == seen

\* a faulty eviction that keeps the oldest ids (slice(0, 5000))
AddTxKeepOldest(seen, tx) ==
    LET s == Append(seen, tx)
    IN IF Len(s) > DEDUP_HIGH_WATER THEN SubSeq(s, 1, DEDUP_KEEP) ELSE s

\* extractEventsFromReceipt: the dedup set after txHash is added
AddTx(seen, tx) ==
    LET s == Append(seen, tx)
    IN IF Len(s) > DEDUP_HIGH_WATER
       THEN SubSeq(s, Len(s) - DEDUP_KEEP + 1, Len(s))
       ELSE s

\* a faulty lookup in the dedup set that finds nothing
SeqHasNot(seq, x) == FALSE

SeqHas(seq, x) == \E i \in 1..Len(seq) : seq[i] = x

\* processReceipts over the receipts of one block: the dedup set afterwards
\* and the request ids of the events found, in emission order
RECURSIVE processReceipts(_, _, _, _)
processReceipts(receipts, seen, eventName, outcome) ==
    IF receipts = << >> THEN [seen |-> seen, events |-> << >>]
    ELSE LET r == Head(receipts)
             scan == outcome # "lookupFail" /\ ~SeqHas(seen, r.tx)
             seen1 == IF scan THEN AddTx(seen, r.tx) ELSE seen
             found == IF scan /\ outcome # "statusFail"
                      THEN EventsOfTx(r.tx, eventName) ELSE << >>
             rest == processReceipts(Tail(receipts), seen1, eventName, outcome)
         IN [seen |-> rest.seen, events |-> found \o rest.events]

\* a faulty finally block: the flag is left as it is
KeepFlag(sts, ref) == sts

\* the finally block of pollForEvents
ReleaseFlag(sts, ref) == [sts EXCEPT ![ref].isProcessing = FALSE]

\* a faulty guard: the flag is never seen set
NeverProcessing(ref) == FALSE

\* the isProcessing guard at the entry of pollForEvents
AlreadyProcessing(ref) == states[ref].isProcessing

\* a faulty tick callback that drops the error of pollForEvents
tickDrop(via, id) == {}

\* the catch of the tick callback: an error pollForEvents threw into it is
\* emitted as watcher:error
tickCatch(via, id) == IF via = "tick" THEN {<<"watcher:error", id>>} ELSE {}

\* pollForEvents leaves (return or throw) through its finally block; q is the
\* poll as it ends and sts the state objects as it leaves them
ExitPoll(p, q, sts, res) ==
    LET cleared == ReleaseFlag(sts, q.st)
    IN /\ polls' = Drop(polls, p)
       /\ states' = Collect(cleared, processingStates, polls')
       /\ last' = Observed(
                  [op |-> "pollForEvents", id |-> q.id, res |-> res,
                   out |-> IF res = "threw" THEN tickCatch(q.via, q.id)
                           ELSE {},
                   blocksProcessed |-> q.blocksProcessed,
                   eventsFound |-> q.eventsFound,
                   first |-> q.first, cur |-> q.cur,
                   cursor |-> sts[q.st].lastBlockHeight])

\* pollForEvents from its entry to the first suspension (viewBlock final)
pollForEvents(id, contractId, eventName, via) ==
    IF ~account \/ id \notin DOMAIN processingStates
    THEN /\ last' = Last("pollForEvents", id, "threw", tickCatch(via, id))
         /\ UNCHANGED <<states, polls, started>>
    ELSE LET ref == processingStates[id]
         IN IF AlreadyProcessing(ref)
            THEN /\ last' = Last("pollForEvents", id, "busy", {})
                 /\ UNCHANGED <<states, polls, started>>
            ELSE /\ started < MaxPolls
                 /\ started' = started + 1
                 /\ states' = [states EXCEPT ![ref].isProcessing = TRUE]
                 /\ polls' = Put(polls, Fresh(DOMAIN polls),
                        [id |-> id, contractId |-> contractId,
                         eventName |-> eventName, st |-> ref, via |-> via,
                         pc |-> "current", cur |-> 0, lo |-> 0, hi |-> 0,
                         pending |-> {}, batchEvents |-> 0,
                         blocksProcessed |-> 0, eventsFound |-> 0,
                         first |-> FALSE])
                 /\ last' = Last("pollForEvents", id, "started", {})

\* the cron callback of startPolling fires
Tick(h) ==
    /\ h \in DOMAIN jobs
    /\ jobs[h].running
    /\ IF isProcessing(jobs[h].id)
       THEN /\ last' = Last("tick", jobs[h].id, "skipped", {})
            /\ UNCHANGED <<states, polls, started>>
       ELSE pollForEvents(jobs[h].id, jobs[h].contractId, jobs[h].eventName,
                          "tick")
    /\ UNCHANGED <<env, svc, rcpt, exec, finalHeight, authReady, isInitialized,
                   account, calls, clock, subscriptions, jobs,
                   processingStates, tasks, stopped>>

\* pollForEvents called on the poller by any other caller, for a registered
\* subscription
DirectPoll(id) ==
    /\ id \in DOMAIN subscriptions
    /\ pollForEvents(id, subscriptions[id].contractId,
                     subscriptions[id].eventName, "direct")
    /\ UNCHANGED <<env, svc, rcpt, exec, finalHeight, authReady, isInitialized,
                   account, calls, clock, subscriptions, jobs,
                   processingStates, tasks, stopped>>

\* getCurrentBlock settles: viewBlock answers a block, answers nothing or
\* rejects; then anchoring, the range, the first batch is issued
GotCurrentBlock(p, answer) ==
    /\ p \in DOMAIN polls
    /\ polls[p].pc = "current"
    /\ LET q == polls[p]
           cursor == states[q.st].lastBlockHeight
           anchored == Anchor(cursor, finalHeight)
           from == startHeight(anchored)
           last_ == endBatch(from, finalHeight)
           q1 == [q EXCEPT !.cur = finalHeight, !.first = (cursor = 0)]
           sts == [states EXCEPT ![q.st].lastBlockHeight = anchored]
       IN IF answer = "error" \/ (answer = "none" /\ cursor = 0)
          THEN ExitPoll(p, q, states, "threw")
          ELSE IF answer = "none"
          THEN ExitPoll(p, q, states, "returned")
          ELSE IF from > finalHeight
          THEN ExitPoll(p, q1, sts, "returned")
          ELSE /\ polls' = [polls EXCEPT ![p] =
                              [q1 EXCEPT !.pc = "batch", !.lo = from,
                                         !.hi = last_,
                                         !.pending = from..last_]]
               /\ states' = [sts EXCEPT ![q.st].blocks =
                                 Called(@, from, last_)]
               /\ last' = Quiet
    /\ UNCHANGED <<env, svc, rcpt, exec, started, finalHeight, authReady,
                   isInitialized, account, calls, clock, subscriptions, jobs,
                   processingStates, tasks, stopped>>

\* markEventReceived for every event found
Stamp(contractId, eventName, n) ==
    LET id == generateSubscriptionId(contractId, eventName)
    IN IF n > 0 /\ id \in DOMAIN subscriptions
       THEN [subscriptions EXCEPT ![id].lastEventAt = clock]
       ELSE subscriptions

\* the ledger after one more event:found, function call or success for the
\* event key; kept by the runs that observe the ledger
Count(led, key, what) ==
    IF <<"ledger", "*">> \notin observe THEN led
    ELSE LET old == IF key \in DOMAIN led THEN led[key]
                    ELSE [found |-> 0, calls |-> 0, succeeded |-> 0]
         IN Put(led, key, [old EXCEPT ![what] = @ + 1])

\* the ledger after event:found for each of reqs
RECURSIVE CountEvents(_, _, _)
CountEvents(led, id, reqs) ==
    IF reqs = << >> THEN led
    ELSE CountEvents(Count(led, <<id, Head(reqs)>>, "found"), id, Tail(reqs))

\* the processEvent executions the event:found handler starts
RECURSIVE StartTasks(_, _, _)
StartTasks(bag, id, reqs) ==
    IF reqs = << >> THEN bag
    ELSE StartTasks(bag (+) SetToBag({[id |-> id, requestId |-> Head(reqs),
                                       phase |-> "sampling"]}),
                    id, Tail(reqs))

\* a faulty processBlock: a failure is rethrown, so Promise.all rejects and
\* the poll ends there
BlockDoneRethrow(p, h, outcome) ==
    /\ p \in DOMAIN polls
    /\ polls[p].pc = "batch"
    /\ h \in polls[p].pending
    /\ outcome # "ok"
    /\ ExitPoll(p, polls[p], states, "threw")
    /\ UNCHANGED <<env, svc, rcpt, exec, started, finalHeight, authReady,
                   isInitialized, account, calls, clock, subscriptions, jobs,
                   processingStates, tasks, stopped>>

\* what the listeners of setupComponentHandlers do, while they are attached
Listening(then, otherwise) == IF wired THEN then ELSE otherwise

\* EventProcessor.updateStats
updateStats(st, success, processingTime) ==
    [totalProcessed |-> st.totalProcessed + 1,
     totalProcessingTime |-> st.totalProcessingTime + processingTime,
     successful |-> st.successful + (IF success THEN 1 ELSE 0),
     failed |-> st.failed + (IF success THEN 0 ELSE 1)]

\* EventWatcher.updateProcessingStats, called by the listeners of
\* event:processed and event:processing-error
updateProcessingStats(st, success, processingTime) ==
    [st EXCEPT !.totalEventsProcessed = @ + 1,
               !.totalProcessingTime = @ + processingTime,
               !.totalEventsSuccessful = @ + (IF success THEN 1 ELSE 0),
               !.totalEventsFailed = @ + (IF success THEN 0 ELSE 1)]

\* the counters after the listener of event:found has run for n events;
\* kept by the runs that observe the statistics
Detected(st, n) ==
    IF <<"stats", "*">> \in observe
    THEN Listening([st EXCEPT !.watcher.totalEventsDetected = @ + n], st)
    ELSE st

\* the counters after a processEvent execution has ended and its listener
\* has run; kept by the runs that observe the statistics, in which no time
\* passes between the start and the end of processEvent
Processed(st, success) ==
    IF <<"stats", "*">> \in observe
    THEN [processor |-> updateStats(st.processor, success, dateNow - dateNow),
          watcher |-> Listening(updateProcessingStats(st.watcher, success,
                                                      dateNow - dateNow),
                                st.watcher)]
    ELSE st

\* processBlock for one height of the current batch runs to its end; the
\* listeners of event:found and block:error run within the emit
BlockDone(p, h, outcome) ==
    /\ p \in DOMAIN polls
    /\ polls[p].pc = "batch"
    /\ h \in polls[p].pending
    /\ LET q == polls[p]
           receipts == IF outcome \in {"blockFail", "chunkFail"} THEN << >>
                       ELSE ReceiptsAt(h, q.contractId)
           r == processReceipts(receipts,
                                states[q.st].processedTransactionIds,
                                q.eventName, outcome)
           n == Len(r.events)
       IN /\ outcome \in {"lookupFail", "statusFail"}
                => ReceiptsAt(h, q.contractId) # << >>
          /\ polls' = [polls EXCEPT ![p].pending = @ \ {h},
                                    ![p].batchEvents = @ + n]
          /\ states' = [states EXCEPT ![q.st].processedTransactionIds = r.seen]
          /\ subscriptions' = Listening(Stamp(q.contractId, q.eventName, n),
                                        subscriptions)
          /\ tasks' = Listening(StartTasks(tasks, q.id, r.events), tasks)
          /\ ledger' = CountEvents(ledger, q.id, r.events)
          /\ stats' = Detected(stats, n)
          /\ last' = Last("processBlock", q.id, outcome,
                          IF outcome = "blockFail"
                          THEN {<<"block:error", q.id>>}
                                   \cup Listening({<<"watcher:error", q.id>>},
                                                  {})
                          ELSE IF n > 0
                          THEN {<<"event:found", q.id>>}
                                   \cup Listening({<<"processEvent", q.id>>},
                                                  {})
                          ELSE {})
    /\ UNCHANGED <<cfg, svc, rcpt, dateNow, runs, started, finalHeight,
                   authReady, isInitialized, account, calls, clock, jobs,
                   processingStates, stopped>>

\* Promise.all of the batch has resolved: counts and cursor, then the return
\* or the next batch.  The delay before the next batch only postpones its
\* processBlock calls, which read the chain when they run (BlockDone), so the
\* batch is issued in this step.
BatchJoin(p) ==
    /\ p \in DOMAIN polls
    /\ polls[p].pc = "batch"
    /\ polls[p].pending = {}
    /\ LET q == polls[p]
           q1 == [q EXCEPT !.blocksProcessed = @ + (q.hi - q.lo + 1),
                           !.eventsFound = @ + q.batchEvents,
                           !.batchEvents = 0]
           sts == [states EXCEPT ![q.st].lastBlockHeight = q.hi]
           height == q.lo + BATCH_SIZE
           last_ == endBatch(height, q.cur)
       IN IF q.hi < q.cur
          THEN /\ polls' = [polls EXCEPT ![p] =
                              [q1 EXCEPT !.lo = height, !.hi = last_,
                                         !.pending = height..last_]]
               /\ states' = [sts EXCEPT ![q.st].blocks =
                                 Called(@, height, last_)]
               /\ last' = Quiet
          ELSE ExitPoll(p, q1, sts, "returned")
    /\ UNCHANGED <<env, svc, rcpt, exec, started, finalHeight, authReady,
                   isInitialized, account, calls, clock, subscriptions, jobs,
                   processingStates, tasks, stopped>>

\* --------------------------------------------------------- EventProcessor
Retire(t) == tasks (-) SetToBag({t})

\* requestMCPSampling settles; a response with text goes on to functionCall
SamplingDone(t, outcome) ==
    /\ BagIn(t, tasks)
    /\ t.phase = "sampling"
    /\ IF outcome = "text" /\ account
       THEN /\ tasks' = Retire(t) (+) SetToBag({[t EXCEPT !.phase = "sending"]})
            /\ ledger' = Count(ledger, <<t.id, t.requestId>>, "calls")
            /\ last' = Last("processEvent", t.id, "sending",
                            {<<"functionCall", t.id>>})
            /\ UNCHANGED stats
       ELSE /\ tasks' = Retire(t)
            /\ stats' = Processed(stats, FALSE)
            /\ UNCHANGED ledger
            /\ last' = Last("processEvent", t.id, "failure",
                            Listening({<<"event:failed", t.id>>}, {}))
    /\ UNCHANGED <<cfg, svc, rcpt, dateNow, runs, started, finalHeight,
                   authReady, isInitialized, account, calls, clock,
                   subscriptions, jobs, processingStates, states, polls,
                   stopped>>

\* account.functionCall settles
ResponseDone(t, ok) ==
    /\ BagIn(t, tasks)
    /\ t.phase = "sending"
    /\ tasks' = Retire(t)
    /\ ledger' = IF ok THEN Count(ledger, <<t.id, t.requestId>>, "succeeded")
                  ELSE ledger
    /\ stats' = Processed(stats, ok)
    /\ last' = Last("processEvent", t.id,
                    IF ok THEN "success" ELSE "failure",
                    Listening({<<IF ok THEN "event:processed"
                                 ELSE "event:failed", t.id>>}, {}))
    /\ UNCHANGED <<cfg, svc, rcpt, dateNow, runs, started, finalHeight,
                   authReady, isInitialized, account, calls, clock,
                   subscriptions, jobs, processingStates, states, polls,
                   stopped>>

\* --------------------------------------------------------- specifications
Watch ==
    \/ \E s \in DOMAIN calls, c \in contracts, e \in EventNames :
          WatchEvent(s, c, e)
    \/ \E s \in DOMAIN calls, ok \in BOOLEAN : AuthDone(s, ok)
    \/ \E s \in DOMAIN calls, ok \in BOOLEAN : ValidateDone(s, ok)
    \/ \E s \in DOMAIN calls, k \in BOOLEAN : WatchBody(s, k)

Stop ==
    \E c \in contracts, e \in EventNames, f \in {"none", "cron"} :
       StopWatching(c, e, f)

PauseResume ==
    \/ \E c \in contracts, e \in EventNames : pauseWatching(c, e)
    \/ \E c \in contracts, e \in EventNames : resumeWatching(c, e)

Registry == Watch \/ Stop \/ PauseResume

Shutdown ==
    \/ \E op \in {"stopAllWatching", "cleanup"}, f \in {"none", "cron"} :
          StopAllWatching(op, f)
    \/ \E f \in {"none", "cron"} : StopAllNext(f)
    \/ StopAllReturns
    \/ CleanupReturns

Schedule == \E h \in DOMAIN jobs : Tick(h)

Poller ==
    \/ \E p \in DOMAIN polls, a \in {"block", "none", "error"} :
          GotCurrentBlock(p, a)
    \/ \E p \in DOMAIN polls, o \in Outcomes :
          \E h \in polls[p].pending : BlockDone(p, h, o)
    \/ \E p \in DOMAIN polls : BatchJoin(p)

Processor ==
    \/ \E t \in BagToSet(tasks),
          o \in {"text", "notext", "error", "timeout"} : SamplingDone(t, o)
    \/ \E t \in BagToSet(tasks), ok \in BOOLEAN : ResponseDone(t, ok)

Next == BlockProduced \/ Registry \/ Schedule \/ Poller \/ Processor

Init == InitObserving({})

Spec == Init /\ [][Next]_vars

\* the same program, with the outcome of one operation recorded in last
SpecWatch == InitObserving({<<"watchEvent", "*">>}) /\ [][Next]_vars

SpecStop == InitObserving({<<"stopWatching", "*">>}) /\ [][Next]_vars

SpecEmit ==
    InitObserving({<<"processBlock", "*">>, <<"processEvent", "*">>})
        /\ [][Next]_vars

SpecPoll == InitObserving({<<"pollForEvents", "returned">>}) /\ [][Next]_vars

\* a subscription that is watched, paused and resumed but never stopped, on
\* a chain that runs one block further, so that a poll meets a range of two
\* heights; processEvent executions are started and left pending
NextWatched ==
    ProduceBlock(MaxHeight + 1) \/ Watch \/ PauseResume \/ Schedule \/ Poller

SpecBlocks ==
    InitObserving({<<"processBlock", "*">>, <<"pollForEvents", "returned">>,
                   <<"pollForEvents", "threw">>})
        /\ [][NextWatched]_vars

SpecTicks ==
    InitObserving({<<"tick", "*">>, <<"pollForEvents", "started">>,
                   <<"pollForEvents", "busy">>, <<"pollForEvents", "threw">>})
        /\ [][Next]_vars

SpecPause ==
    InitObserving({<<"pauseWatching", "*">>, <<"resumeWatching", "*">>,
                   <<"stopWatching", "*">>, <<"pollForEvents", "started">>})
        /\ [][Next]_vars

\* a subscription that was watched and paused before its first tick, on a
\* chain that runs one block further; it is resumed, polled and paused
InitPaused ==
    /\ contracts = {"c1"}
    /\ observe = {<<"pauseWatching", "*">>, <<"resumeWatching", "*">>}
    /\ finalHeight = 1
    /\ authReady = TRUE
    /\ isInitialized = TRUE
    /\ account = TRUE
    /\ calls = << NoCall >>
    /\ clock = 2
    /\ subscriptions =
          ("c1:ping" :> [NewSubscription("c1", "ping", 1)
                            EXCEPT !.isActive = FALSE, !.cronJob = 1])
    /\ jobs = (1 :> [id |-> "c1:ping", contractId |-> "c1",
                     eventName |-> "ping", running |-> FALSE])
    /\ processingStates = ("c1:ping" :> 1)
    /\ states = (1 :> NewState)
    /\ polls = <<>>
    /\ started = 0
    /\ tasks = EmptyBag
    /\ stopped = {}
    /\ handling = EmptyBag
    /\ parsing = NoParse
    /\ txLog = <<>>
    /\ dateNow = 0
    /\ runs = <<>>
    /\ ledger = <<>>
    /\ wired = TRUE
    /\ sweep = NoSweep
    /\ stats = NoStats
    /\ last = Quiet

NextPaused ==
    ProduceBlock(MaxHeight + 1) \/ PauseResume \/ Schedule \/ Poller

SpecResume == InitPaused /\ [][NextPaused]_vars

\* a subscription whose first poll, at height 1, left the cursor at 1 and
\* whose next tick comes when the chain is more than one batch ahead
InitBacklog ==
    /\ contracts = {"c1"}
    /\ observe = {}
    /\ finalHeight \in (2 + BATCH_SIZE)..(1 + BATCH_SIZE + MaxHeight)
    /\ authReady = TRUE
    /\ isInitialized = TRUE
    /\ account = TRUE
    /\ calls = << NoCall >>
    /\ clock = 2
    /\ subscriptions =
          ("c1:ping" :> [NewSubscription("c1", "ping", 1)
                            EXCEPT !.cronJob = 1])
    /\ jobs = (1 :> [id |-> "c1:ping", contractId |-> "c1",
                     eventName |-> "ping", running |-> TRUE])
    /\ processingStates = ("c1:ping" :> 1)
    /\ states = (1 :> [NewState EXCEPT !.lastBlockHeight = 1])
    /\ polls = <<>>
    /\ started = 1
    /\ tasks = EmptyBag
    /\ stopped = {}
    /\ handling = EmptyBag
    /\ parsing = NoParse
    /\ txLog = <<>>
    /\ dateNow = 0
    /\ runs = <<>>
    /\ ledger = <<>>
    /\ wired = TRUE
    /\ sweep = NoSweep
    /\ stats = NoStats
    /\ last = Quiet

NextBacklog == Schedule \/ Poller

SpecBatches == InitBacklog /\ [][NextBacklog]_vars

\* the watcher with callers that name two contracts and shut it down
NextShutdown == Registry \/ Shutdown

SpecShutdown ==
    /\ InitWith(Contracts,
                {<<"stopAllWatching", "*">>, <<"cleanup", "*">>}, TRUE)
    /\ [][NextShutdown]_vars

\* the watcher used again after cleanup(): every subscription of this run is
\* watched after the cleanup
NextReuse == BlockProduced \/ Watch \/ Stop \/ Schedule \/ Poller

SpecReuse ==
    /\ InitWith({"c1"}, {<<"processBlock", "*">>, <<"ledger", "*">>}, FALSE)
    /\ [][NextReuse]_vars

\* from the block to the response transaction, for a subscription that is
\* not stopped, with the ledger kept
SpecEndToEnd ==
    InitObserving({<<"ledger", "*">>})
        /\ [][NextWatched \/ Processor]_vars

\* the poller driven by a caller of pollForEvents other than the schedule
Direct == \E id \in DOMAIN subscriptions : DirectPoll(id)

NextPoller == BlockProduced \/ Registry \/ Direct \/ Poller \/ Processor

SpecPoller ==
    InitObserving({<<"pollForEvents", "busy">>, <<"pollForEvents", "started">>})
        /\ [][NextPoller]_vars

\* -------------------------------------------- receipt handling in detail
\* extractEventsFromReceipt one await at a time, on the state object of one
\* initialized subscription: the explorer lookup settles (the dedup test and
\* the insertion run in that step), then the transaction status settles (the
\* logs are scanned).  processBlock handles the receipts of one block one
\* after the other and the blocks of a batch concurrently, so at most
\* BATCH_SIZE receipts are in progress at a time.
Txs == {1, 2, 3}

\* a dedup set filled to the high-water mark, tx the oldest id in it
Filled(tx) ==
    [i \in 1..DEDUP_HIGH_WATER |-> IF i = 1 THEN tx ELSE DEDUP_HIGH_WATER + i]

NoLog == [tx \in Txs |-> [receipts |-> 0, scans |-> 0]]

\* the poller after initializeSubscription: fresh, or after DEDUP_HIGH_WATER
\* transactions of which transaction 1 was the first and was scanned
InitReceipts ==
    /\ contracts = {"c1"}
    /\ observe = {}
    /\ finalHeight = 1
    /\ authReady = TRUE
    /\ isInitialized = FALSE
    /\ account = TRUE
    /\ calls = << NoCall >>
    /\ clock = 1
    /\ subscriptions = <<>>
    /\ jobs = <<>>
    /\ processingStates = ("c1:ping" :> 1)
    /\ \E full \in BOOLEAN :
          /\ states = (1 :> [NewState EXCEPT !.processedTransactionIds =
                                IF full THEN Filled(1) ELSE << >>])
          /\ txLog = IF full
                     THEN [NoLog EXCEPT ![1] = [receipts |-> 1, scans |-> 1]]
                     ELSE NoLog
    /\ polls = <<>>
    /\ started = 0
    /\ tasks = EmptyBag
    /\ stopped = {}
    /\ handling = EmptyBag
    /\ parsing = NoParse
    /\ dateNow = 0
    /\ runs = <<>>
    /\ ledger = <<>>
    /\ wired = TRUE
    /\ sweep = NoSweep
    /\ stats = NoStats
    /\ last = Quiet

Handled == [tx \in Txs |-> txLog[tx].receipts]

RECURSIVE Sum(_, _)
Sum(f, S) ==
    IF S = {} THEN 0
    ELSE LET x == CHOOSE y \in S : TRUE IN f[x] + Sum(f, S \ {x})

\* processReceipts hands a receipt that resolves to tx to
\* extractEventsFromReceipt, which issues the explorer lookup
ReceiptArrives(ref, tx) ==
    /\ ref \in DOMAIN states
    /\ Sum(Handled, Txs) < MaxReceipts
    /\ BagCardinality(handling) < BATCH_SIZE
    /\ handling' = handling (+) SetToBag({[st |-> ref, tx |-> tx,
                                           pc |-> "lookup"]})
    /\ txLog' = [txLog EXCEPT ![tx].receipts = @ + 1]
    /\ UNCHANGED <<env, svc, exec, parsing, finalHeight, authReady,
                   isInitialized, account, calls, clock, subscriptions, jobs,
                   processingStates, states, polls, started, tasks, stopped,
                   last>>

\* the explorer lookup settles: unless it failed or the hash is in the dedup
\* set, the hash is inserted and the transaction status is requested
LookupDone(r, ok) ==
    /\ BagIn(r, handling)
    /\ r.pc = "lookup"
    /\ LET seen == states[r.st].processedTransactionIds
       IN IF ok /\ ~SeqHas(seen, r.tx)
          THEN /\ states' = [states EXCEPT ![r.st].processedTransactionIds =
                                AddTx(seen, r.tx)]
               /\ handling' = (handling (-) SetToBag({r}))
                                 (+) SetToBag({[r EXCEPT !.pc = "status"]})
          ELSE /\ handling' = handling (-) SetToBag({r})
               /\ UNCHANGED states
    /\ UNCHANGED <<env, svc, exec, txLog, parsing, finalHeight, authReady,
                   isInitialized, account, calls, clock, subscriptions, jobs,
                   processingStates, polls, started, tasks, stopped, last>>

\* viewTransactionStatus settles: on success the logs are scanned
StatusDone(r, ok) ==
    /\ BagIn(r, handling)
    /\ r.pc = "status"
    /\ handling' = handling (-) SetToBag({r})
    /\ txLog' = IF ok THEN [txLog EXCEPT ![r.tx].scans = @ + 1] ELSE txLog
    /\ UNCHANGED <<env, svc, exec, parsing, finalHeight, authReady,
                   isInitialized, account, calls, clock, subscriptions, jobs,
                   processingStates, states, polls, started, tasks, stopped,
                   last>>

NextReceipts ==
    \/ \E ref \in DOMAIN states, tx \in Txs : ReceiptArrives(ref, tx)
    \/ \E r \in BagToSet(handling), ok \in BOOLEAN : LookupDone(r, ok)
    \/ \E r \in BagToSet(handling), ok \in BOOLEAN : StatusDone(r, ok)

SpecReceipts == InitReceipts /\ [][NextReceipts]_vars

\* --------------------------------------------- event processing in detail
\* processEvent one await at a time: the sampling request races a timer of
\* DEFAULT_TIMEOUT, then account.functionCall is awaited.  Time is counted in
\* minutes, and a timer that is due fires before time moves on.
\* the request id of the n-th event handed to processEvent
RequestId(n) == n

NoResult ==
    [kind |-> "none", success |-> FALSE, error |-> << >>, response |-> "",
     at |-> 0]

ProcessingResult(success, error, response) ==
    [kind |-> "returned", success |-> success, error |-> error,
     response |-> response, at |-> dateNow]

\* a faulty processEvent with no catch block: the error reaches the caller
Thrown(error) ==
    [kind |-> "threw", success |-> FALSE, error |-> error, response |-> "",
     at |-> dateNow]

\* the catch block of processEvent: the error message becomes a failure result
Caught(error) == ProcessingResult(FALSE, error, "")

\* the error requestMCPSampling throws in place of the one it caught
SamplingFailed(message) == <<"MCP sampling failed", message>>

\* a faulty requestMCPSampling that awaits the sampling promise alone
AwaitSampling(promise) == promise = "sampling"

\* Promise.race of the sampling promise and the timeout promise settles with
\* whichever of the two settles first
PromiseRace(promise) == promise \in {"sampling", "timeout"}

\* a faulty test that takes any response for a response with text
anyResponse(answer) == answer \in {"text", "notext"}

\* mcpResponse && mcpResponse.content?.text
hasText(answer) == answer = "text"

InitProcessing ==
    /\ contracts = {"c1"}
    /\ observe = {}
    /\ finalHeight = 1
    /\ authReady = FALSE
    /\ isInitialized = FALSE
    /\ account = FALSE
    /\ calls = << NoCall >>
    /\ clock = 1
    /\ subscriptions = <<>>
    /\ jobs = <<>>
    /\ processingStates = <<>>
    /\ states = <<>>
    /\ polls = <<>>
    /\ started = 0
    /\ tasks = EmptyBag
    /\ stopped = {}
    /\ handling = EmptyBag
    /\ parsing = NoParse
    /\ txLog = <<>>
    /\ dateNow = 0
    /\ runs = <<>>
    /\ ledger = <<>>
    /\ wired = TRUE
    /\ sweep = NoSweep
    /\ stats = NoStats
    /\ last = Quiet

\* EventProcessor.setAccount
setAccount ==
    /\ ~account
    /\ account' = TRUE
    /\ UNCHANGED <<env, svc, rcpt, exec, finalHeight, authReady, isInitialized,
                   calls, clock, subscriptions, jobs, processingStates,
                   states, polls, started, tasks, stopped, last>>

\* a minute passes, unless a timer is due
TimePasses ==
    /\ dateNow < MaxTime
    /\ \A i \in DOMAIN runs :
          runs[i].timer = "armed"
             => dateNow < runs[i].startTime + DEFAULT_TIMEOUT
    /\ dateNow' = dateNow + 1
    /\ UNCHANGED <<env, svc, rcpt, runs, stats, finalHeight, authReady,
                   isInitialized, account, calls, clock, subscriptions, jobs,
                   processingStates, states, polls, started, tasks, stopped,
                   last>>

\* the numbers getStats reports are quotients: a / b in lowest terms, and
\* what the division gives for b = 0 (NaN for 0 / 0, Infinity otherwise)
RECURSIVE GCD(_, _)
GCD(a, b) == IF b = 0 THEN a ELSE GCD(b, a % b)

Quotient(a, b) ==
    IF b = 0 THEN [n |-> IF a = 0 THEN 0 ELSE 1, d |-> 0]
    ELSE [n |-> a \div GCD(a, b), d |-> b \div GCD(a, b)]

Zero == Quotient(0, 1)

\* a faulty getStats that divides whatever the count is
unguarded(count, quotient) == quotient

\* count > 0 ? quotient : 0
guarded(count, quotient) == IF count > 0 THEN quotient ELSE Zero

\* (successful / processed) * 100
Percent(successful, processed) ==
    LET q == Quotient(successful, processed)
    IN Quotient(q.n * 100, q.d)

\* EventProcessor.getStats: the rates it derives from the counters
EventProcessor_getStats(st) ==
    [totalProcessed |-> st.totalProcessed,
     successful |-> st.successful,
     failed |-> st.failed,
     averageProcessingTime |->
         guarded(st.totalProcessed,
                 Quotient(st.totalProcessingTime, st.totalProcessed)),
     successRate |->
         guarded(st.totalProcessed,
                 Percent(st.successful, st.totalProcessed))]

\* EventWatcher.getStats
getStats(subs, st) ==
    LET active == getActiveSubscriptions(subs)
    IN [totalSubscriptions |-> Len(active),
        activeSubscriptions |->
            Cardinality({i \in DOMAIN active : active[i].isActive}),
        totalEventsProcessed |-> st.totalEventsProcessed,
        totalEventsSuccessful |-> st.totalEventsSuccessful,
        totalEventsFailed |-> st.totalEventsFailed,
        successRate |->
            guarded(st.totalEventsProcessed,
                    Percent(st.totalEventsSuccessful,
                            st.totalEventsProcessed)),
        averageProcessingTime |->
            guarded(st.totalEventsProcessed,
                    Quotient(st.totalProcessingTime,
                             st.totalEventsProcessed))]

\* a faulty emit that drops the event
mute(run, event) == run

\* this.emit(event, ...) of the processor within the execution run
emit(run, event) == [run EXCEPT !.emitted = Append(@, event)]

\* processEvent ends: it updates the statistics, emits event:processed or
\* event:processing-error to the watcher's listener, and its promise settles
Settle(i, run, result) ==
    LET processingTime == dateNow - run.startTime
    IN /\ runs' = [runs EXCEPT ![i] =
                       [emit(run, IF result.success THEN "event:processed"
                                  ELSE "event:processing-error")
                           EXCEPT !.phase = "done", !.result = result]]
       /\ stats' =
             [processor |-> updateStats(stats.processor, result.success,
                                        processingTime),
              watcher |-> IF wired
                          THEN updateProcessingStats(stats.watcher,
                                                     result.success,
                                                     processingTime)
                          ELSE stats.watcher]

\* a promise settles that processEvent no longer waits for, or processEvent
\* goes on to its next await
Proceed(i, run) ==
    /\ runs' = [runs EXCEPT ![i] = run]
    /\ UNCHANGED stats

\* processEvent from its entry to the await of Promise.race: the timer is
\* set and the sampling request is sent
ProcessEvent(requestId) ==
    /\ Cardinality(DOMAIN runs) < MaxEvents
    /\ requestId = RequestId(Fresh(DOMAIN runs))
    /\ runs' = Put(runs, Fresh(DOMAIN runs),
                   [requestId |-> requestId, startTime |-> dateNow,
                    phase |-> "sampling", sampling |-> "pending",
                    timer |-> "armed", functionCalls |-> << >>,
                    tx |-> "none", result |-> NoResult,
                    emitted |-> << "event:mcp-request" >>])
    /\ UNCHANGED <<env, svc, rcpt, dateNow, stats, finalHeight, authReady,
                   isInitialized, account, calls, clock, subscriptions, jobs,
                   processingStates, states, polls, started, tasks, stopped,
                   last>>

\* session.requestSampling settles with a response that has text, a response
\* that has none, or a rejection; processEvent goes on if the race was still
\* open
SamplingSettles(i, answer) ==
    /\ i \in DOMAIN runs
    /\ runs[i].sampling = "pending"
    /\ LET late == [runs[i] EXCEPT !.sampling = answer]
           run == emit(late, "event:mcp-response")
       IN IF late.phase # "sampling" \/ ~PromiseRace("sampling")
          THEN Proceed(i, late)
          ELSE IF answer = "error"
          THEN Settle(i, late, Caught(SamplingFailed("rejected")))
          ELSE IF ~hasText(answer)
          THEN Settle(i, run,
                      Caught(<<"No valid response from MCP client">>))
          ELSE IF ~account
          THEN Settle(i, run, Caught(
                  <<"NEAR account not set. Call setAccount() first.">>))
          ELSE Proceed(i,
                  [run EXCEPT !.phase = "sending", !.tx = "pending",
                              !.functionCalls =
                                  Append(@, [data_id |-> run.requestId,
                                             response |-> answer])])
    /\ UNCHANGED <<env, svc, rcpt, dateNow, finalHeight, authReady,
                   isInitialized, account, calls, clock, subscriptions, jobs,
                   processingStates, states, polls, started, tasks, stopped,
                   last>>

\* the timer of requestMCPSampling fires: the timeout promise rejects
TimeoutFires(i) ==
    /\ i \in DOMAIN runs
    /\ runs[i].timer = "armed"
    /\ dateNow >= runs[i].startTime + DEFAULT_TIMEOUT
    /\ LET run == [runs[i] EXCEPT !.timer = "fired"]
       IN IF run.phase = "sampling" /\ PromiseRace("timeout")
          THEN Settle(i, run, Caught(SamplingFailed("MCP sampling timeout")))
          ELSE Proceed(i, run)
    /\ UNCHANGED <<env, svc, rcpt, dateNow, finalHeight, authReady,
                   isInitialized, account, calls, clock, subscriptions, jobs,
                   processingStates, states, polls, started, tasks, stopped,
                   last>>

\* account.functionCall settles
FunctionCallSettles(i, ok) ==
    /\ i \in DOMAIN runs
    /\ runs[i].phase = "sending"
    /\ LET run == [runs[i] EXCEPT !.tx = IF ok THEN "ok" ELSE "rejected"]
       IN IF ok
          THEN Settle(i, emit(run, "event:blockchain-response"),
                      ProcessingResult(TRUE, << >>, "text"))
          ELSE Settle(i, run,
                      Caught(<<"Blockchain response failed", "rejected">>))
    /\ UNCHANGED <<env, svc, rcpt, dateNow, finalHeight, authReady,
                   isInitialized, account, calls, clock, subscriptions, jobs,
                   processingStates, states, polls, started, tasks, stopped,
                   last>>

NextProcessing ==
    \/ setAccount
    \/ TimePasses
    \/ \E r \in 1..MaxEvents : ProcessEvent(r)
    \/ \E i \in DOMAIN runs, a \in {"text", "notext", "error"} :
          SamplingSettles(i, a)
    \/ \E i \in DOMAIN runs : TimeoutFires(i)
    \/ \E i \in DOMAIN runs, ok \in BOOLEAN : FunctionCallSettles(i, ok)

SpecProcessing == InitProcessing /\ [][NextProcessing]_vars

\* ------------------------------------------------ parseEventLog in detail
\* JSON values, and undefined for what a property access may give
Null == [t |-> "null"]

Undefined == [t |-> "undefined"]

Num == [t |-> "number"]

Str(s) == [t |-> "string", s |-> s]

Arr(items) == [t |-> "array", items |-> items]

Obj(fields) == [t |-> "object", fields |-> fields]

\* a text that is no JSON
Malformed == [t |-> "malformed"]

\* what data[0] may be
Elements ==
    {Null, Num, Obj([request_id |-> Str("r1")]), Obj([amount |-> Num])}

\* what the data member may be
Datas ==
    {Str("r1"), Null, Arr(<< >>)}
        \cup {Arr(<< x >>) : x \in Elements}
        \cup {Arr(<< x, Obj([request_id |-> Str("r2")]) >>) : x \in Elements}

Events == {Str("ping"), Str("pong"), Null}

\* the texts after the prefix: no JSON, a JSON value that is no object, an
\* object with or without the members event and data
Texts ==
    {Malformed, Null, Num, Str("ping"), Arr(<< Str("ping") >>), Obj(<< >>)}
        \cup {Obj([event |-> e]) : e \in Events}
        \cup {Obj([data |-> d]) : d \in Datas}
        \cup {Obj([event |-> e, data |-> d]) : e \in Events, d \in Datas}

Heads == {"EVENT_JSON:", "EVENT_JSON", "event_json:", ""}

\* the log lines: what the line starts with, and the text after it
Logs == [head : Heads, text : Texts]

\* JSON.parse: the value of the text, or a SyntaxError
JSON_parse(text) ==
    IF text = Malformed THEN [threw |-> TRUE, v |-> Undefined]
    ELSE [threw |-> FALSE, v |-> text]

\* v.name: a TypeError on null and undefined, undefined where v has no such
\* member
Member(v, name) ==
    IF v.t \in {"null", "undefined"} THEN [threw |-> TRUE, v |-> Undefined]
    ELSE IF v.t = "object" /\ name \in DOMAIN v.fields
    THEN [threw |-> FALSE, v |-> v.fields[name]]
    ELSE [threw |-> FALSE, v |-> Undefined]

\* what parseEventLog answers: an AgentEvent, null, or an error thrown
NoEvent == [kind |-> "null"]

Threw == [kind |-> "threw"]

AgentEvent(eventType, first, requestId, signerId) ==
    [kind |-> "event", eventType |-> eventType, requestId |-> requestId,
     payload |-> first, sender |-> signerId]

\* the try block of parseEventLog
tryParse(log, eventName, signerId) ==
    IF log.head # "EVENT_JSON:" THEN NoEvent
    ELSE LET parsed == JSON_parse(log.text)
             eventData == parsed.v
             event == Member(eventData, "event")
             data == Member(eventData, "data")
         IN IF parsed.threw \/ event.threw THEN Threw
            ELSE IF event.v # Str(eventName) THEN NoEvent
            ELSE IF data.v.t # "array" THEN NoEvent
            ELSE IF Len(data.v.items) = 0 THEN NoEvent
            ELSE LET first == data.v.items[1]
                     requestId == Member(first, "request_id")
                 IN IF requestId.threw THEN Threw
                    ELSE AgentEvent(event.v.s, first, requestId.v, signerId)

\* a faulty parseEventLog with no catch block
uncaught(r) == r

\* the catch block of parseEventLog logs the error; null is returned
caught(r) == IF r = Threw THEN NoEvent ELSE r

parseEventLog(log, eventName, signerId) ==
    caught(tryParse(log, eventName, signerId))

\* parseEventLog is called for a log line of a receipt outcome
ParseEventLog(log, eventName) ==
    /\ parsing' = [called |-> TRUE, log |-> log, eventName |-> eventName,
                   result |-> parseEventLog(log, eventName, "alice.near")]
    /\ UNCHANGED <<env, svc, exec, handling, txLog, finalHeight, authReady,
                   isInitialized, account, calls, clock, subscriptions, jobs,
                   processingStates, states, polls, started, tasks, stopped,
                   last>>

NextParse ==
    \E log \in Logs, eventName \in {"ping", "pong"} :
       ParseEventLog(log, eventName)

SpecParse == InitObserving({}) /\ [][NextParse]_vars

\* ------------------------------------------------------------- properties
PollsOf(id) == {p \in DOMAIN polls : polls[p].id = id}

JobsOf(jbs, id) == {h \in DOMAIN jbs : jbs[h].id = id}

\* C1: for every subscription id, at most one pollForEvents execution is in
\* progress at any time, whatever the interleaving of ticks with watchEvent,
\* stopWatching, pauseWatching and resumeWatching.
C1_AtMostOnePollPerSubscription ==
    \A id \in Ids : Cardinality(PollsOf(id)) <= 1

\* C2: once stopWatching has returned true for a pair, and until the pair is
\* watched again, no step emits event:found, starts processEvent or submits a
\* response transaction for that subscription.
C2_NothingAfterStop ==
    \A id \in stopped :
        {<<"event:found", id>>, <<"processEvent", id>>,
         <<"functionCall", id>>} \cap last.out = {}

\* C3: a watchEvent call that reaches its duplicate check while a
\* subscription for the pair is registered fails with the duplicate error and
\* leaves exactly one registry entry for the pair, the entry (createdAt,
\* schedule handle), the schedules and the Poller state unchanged.
C3_DuplicateWatchRejected ==
    [][\A s \in DOMAIN calls, k \in BOOLEAN :
          LET c == calls[s].contractId
              e == calls[s].eventName
              id == generateSubscriptionId(c, e)
          IN (id \in DOMAIN subscriptions /\ WatchBody(s, k)) =>
                /\ last'.op = "watchEvent"
                /\ last'.res = "duplicate"
                /\ Cardinality({i \in DOMAIN subscriptions' :
                                   /\ subscriptions'[i].contractId = c
                                   /\ subscriptions'[i].eventName = e}) = 1
                /\ subscriptions'[id] = subscriptions[id]
                /\ UNCHANGED <<subscriptions, jobs, processingStates,
                               states>>]_vars

\* a watchEvent has been rejected as a duplicate of a registered subscription
C3_DuplicateSeen ==
    /\ last.op = "watchEvent"
    /\ last.res = "duplicate"
    /\ last.id \in DOMAIN subscriptions

\* C4 as stated: stopWatching never throws; it returns false and changes
\* nothing when the pair is not registered, and returns true when it is,
\* after which the pair is not watched, its schedule is stopped and the
\* Poller holds no state for the id.
C4_StopWatchingAsStated ==
    [][\A c \in contracts, e \in EventNames, f \in {"none", "cron"} :
          LET id == generateSubscriptionId(c, e)
          IN StopWatching(c, e, f) =>
                /\ last'.op = "stopWatching"
                /\ last'.res \in {"true", "false"}
                /\ id \notin DOMAIN subscriptions =>
                      /\ last'.res = "false"
                      /\ UNCHANGED <<subscriptions, jobs, processingStates,
                                     states>>
                /\ id \in DOMAIN subscriptions =>
                      /\ last'.res = "true"
                      /\ id \notin DOMAIN subscriptions'
                      /\ JobsOf(jobs', id) = {}
                      /\ id \notin DOMAIN processingStates']_vars

\* C4 (amended): stopWatching never throws; it returns false and changes
\* nothing when the pair is not registered; when it is registered it returns
\* true unless a teardown step throws, and then it emits watcher:error and
\* returns false; whenever it returns true the pair is not watched, its
\* schedule is stopped and the Poller holds no state for the id.
C4_StopWatchingTotal ==
    [][\A c \in contracts, e \in EventNames, f \in {"none", "cron"} :
          LET id == generateSubscriptionId(c, e)
          IN StopWatching(c, e, f) =>
                /\ last'.op = "stopWatching"
                /\ last'.res \in {"true", "false"}
                /\ id \notin DOMAIN subscriptions =>
                      /\ last'.res = "false"
                      /\ UNCHANGED <<subscriptions, jobs, processingStates,
                                     states>>
                /\ (id \in DOMAIN subscriptions /\ f = "none") =>
                      last'.res = "true"
                /\ (id \in DOMAIN subscriptions /\ f = "cron") =>
                      /\ last'.res = "false"
                      /\ <<"watcher:error", id>> \in last'.out
                /\ last'.res = "true" =>
                      /\ id \notin DOMAIN subscriptions'
                      /\ JobsOf(jobs', id) = {}
                      /\ id \notin DOMAIN processingStates']_vars

\* stopWatching has returned false for a pair that is registered
C4_StopFailedWhileRegistered ==
    /\ last.op = "stopWatching"
    /\ last.res = "false"
    /\ last.id \in DOMAIN subscriptions

\* C5: when watchEvent succeeds it returns "{contractId}:{eventName}", and at
\* that moment the registry holds an active entry for the id with its
\* schedule handle stored, the schedule runs, and the Poller holds a state
\* for the id with cursor 0, flag false and an empty dedup set.
C5_WatchEventPostcondition ==
    (last.op = "watchEvent" /\ last.res = "ok") =>
        \E c \in Contracts, e \in EventNames :
            /\ last.id = c \o ":" \o e
            /\ last.id \in DOMAIN subscriptions
            /\ subscriptions[last.id].contractId = c
            /\ subscriptions[last.id].eventName = e
            /\ subscriptions[last.id].isActive
            /\ subscriptions[last.id].cronJob \in DOMAIN jobs
            /\ jobs[subscriptions[last.id].cronJob].id = last.id
            /\ jobs[subscriptions[last.id].cronJob].running
            /\ last.id \in DOMAIN processingStates
            /\ states[processingStates[last.id]] =
                  [lastBlockHeight |-> 0, isProcessing |-> FALSE,
                   processedTransactionIds |-> <<>>, blocks |-> <<>>]

\* watchEvent has just succeeded for a pair that was stopped while a poll
\* for it was running
C5_WatchedAgain ==
    /\ last.op = "watchEvent"
    /\ last.res = "ok"
    /\ PollsOf(last.id) # {}

\* C6: when a step of watchEvent after the duplicate check fails, nothing of
\* the partially created subscription remains as the error reaches the
\* caller: no registry entry, no Poller state, no running schedule.
C6_FailedWatchLeavesNothing ==
    (last.op = "watchEvent" /\ last.res = "failed") =>
        /\ last.id \notin DOMAIN subscriptions
        /\ last.id \notin DOMAIN processingStates
        /\ JobsOf(jobs, last.id) = {}

\* C7: a pollForEvents call made while the in-flight flag of the
\* subscription is set returns zero counts, issues no chain or explorer call
\* and leaves cursor, dedup set and flag unchanged.
C7_BusyPollIsNoOp ==
    [][\A id \in DOMAIN subscriptions :
          (isProcessing(id) /\ DirectPoll(id)) =>
                /\ last'.op = "pollForEvents"
                /\ last'.res = "busy"
                /\ last'.blocksProcessed = 0
                /\ last'.eventsFound = 0
                /\ UNCHANGED <<states, processingStates, polls, tasks,
                               started>>]_vars

\* a pollForEvents call has found the flag set and returned at once
C7_BusySeen ==
    /\ last.op = "pollForEvents"
    /\ last.res = "busy"
    /\ isProcessing(last.id)

\* C8: the in-flight flag of a state is true exactly while the one
\* pollForEvents execution that set it has not exited; every exit (return,
\* early return, throw) leaves it false.
C8_FlagHeldByOnePoll ==
    \A ref \in DOMAIN states :
        LET holders == {p \in DOMAIN polls : polls[p].st = ref}
        IN /\ Cardinality(holders) <= 1
           /\ states[ref].isProcessing <=> (holders # {})

\* a poll has worked on a state and exited: no poll runs, the flag is clear
C8_PollExited ==
    /\ started >= 1
    /\ polls = <<>>
    /\ \E id \in DOMAIN processingStates :
          /\ states[processingStates[id]].lastBlockHeight > 0
          /\ ~isProcessing(id)

\* C9 as stated: the first poll of a fresh subscription anchors the cursor
\* to currentFinalHeight - 1 and, no block having been produced since,
\* processes zero blocks.
C9_FirstPollProcessesNothing ==
    (/\ last.op = "pollForEvents"
     /\ last.res = "returned"
     /\ last.first
     /\ finalHeight = last.cur) =>
        /\ last.blocksProcessed = 0
        /\ last.cursor = last.cur - 1

\* C9 (amended): the first poll of a fresh subscription anchors the cursor
\* to currentFinalHeight - 1 and then processes exactly one block, the
\* current final block, which leaves the cursor at currentFinalHeight.
C9_FirstPollProcessesCurrentBlock ==
    /\ \A p \in DOMAIN polls :
          (polls[p].pc = "batch" /\ polls[p].first) =>
              /\ states[polls[p].st].lastBlockHeight = polls[p].cur - 1
              /\ polls[p].lo = polls[p].cur
              /\ polls[p].hi = polls[p].cur
    /\ (last.op = "pollForEvents" /\ last.res = "returned" /\ last.first) =>
          /\ last.blocksProcessed = 1
          /\ last.cursor = last.cur

\* the first poll of a fresh subscription has returned and no block has been
\* produced since it read the chain
C9_FirstPollReturned ==
    /\ last.op = "pollForEvents"
    /\ last.res = "returned"
    /\ last.first
    /\ finalHeight = last.cur

\* C10: the lastBlockHeight of a state never decreases, the anchoring step
\* and polls with failing block fetches included.
C10_CursorNeverDecreases ==
    [][\A r \in DOMAIN states \cap DOMAIN states' :
          states'[r].lastBlockHeight >= states[r].lastBlockHeight]_vars

\* a state whose cursor has been moved by two polls
C10_CursorAdvancedTwice ==
    /\ started >= 2
    /\ polls = <<>>
    /\ \E r \in DOMAIN states : states[r].lastBlockHeight >= 2

\* the dedup set of the state object the receipts are handled on
Seen == states[1].processedTransactionIds

\* scans of transaction tx decided and not finished yet
Scanning(bag, tx) ==
    Sum([r \in BagToSet(bag) |->
            IF r.tx = tx /\ r.pc = "status" THEN CopiesIn(r, bag) ELSE 0],
        BagToSet(bag))

\* C11 as stated: within one subscription, receipts that resolve to the same
\* transaction hash cause at most one scan of the logs of that transaction.
C11_AtMostOneScan == \A tx \in Txs : txLog[tx].scans <= 1

\* C11 (amended): a scan of a transaction is decided only for a hash that is
\* not in the dedup set, and the hash is inserted in that same step; the
\* logs are scanned once per decision; a hash leaves the set only when an
\* insertion pushes the set above the high-water mark and cuts it to the
\* most recent DEDUP_KEEP ids.  So receipts resolving to one hash cause at
\* most one scan for as long as the hash stays in the dedup set.
C11_OneScanWhileInDedupSet ==
    [][\A tx \in Txs :
          /\ Scanning(handling', tx) > Scanning(handling, tx) =>
                /\ ~SeqHas(Seen, tx)
                /\ SeqHas(Seen', tx)
                /\ Scanning(handling', tx) = Scanning(handling, tx) + 1
          /\ txLog'[tx].scans > txLog[tx].scans =>
                /\ txLog'[tx].scans = txLog[tx].scans + 1
                /\ Scanning(handling', tx) = Scanning(handling, tx) - 1
          /\ (SeqHas(Seen, tx) /\ ~SeqHas(Seen', tx)) =>
                /\ Len(Seen) = DEDUP_HIGH_WATER
                /\ Len(Seen') = DEDUP_KEEP]_vars

\* two receipts or more have resolved to one transaction, all are handled,
\* and its logs were scanned once
C11_DuplicateDropped ==
    /\ handling = EmptyBag
    /\ Len(Seen) < DEDUP_KEEP
    /\ \E tx \in Txs : txLog[tx].receipts >= 2 /\ txLog[tx].scans = 1

C13_ProcessEventAlwaysReturns ==
    \A i \in DOMAIN runs :
       LET run == runs[i] IN
       IF run.phase # "done" THEN run.result = NoResult
       ELSE /\ run.result.kind = "returned"
            /\ run.result.success <=> (run.tx = "ok")
            /\ run.result.success
                  => /\ run.sampling = "text"
                     /\ run.result.response = "text"
                     /\ run.result.error = << >>
            /\ ~run.result.success
                  => /\ run.result.error # << >>
                     /\ run.result.response = ""

\* one execution has failed for want of an account and one has succeeded
C13_FailureAndSuccess ==
    \E i, j \in DOMAIN runs :
       /\ runs[i].phase = "done" /\ runs[i].result.success
       /\ runs[j].phase = "done"
       /\ runs[j].result.error =
             <<"NEAR account not set. Call setAccount() first.">>

TimedOut(run) == "MCP sampling timeout" \in Range(run.result.error)

\* C14: if the sampling request has not settled when DEFAULT_TIMEOUT has
\* elapsed since the call, processEvent returns a failure result whose error
\* mentions the timeout, and it does so no later than DEFAULT_TIMEOUT after
\* the call started: no execution is still waiting for the sampling response
\* past that time.
C14_TimeoutEndsProcessEvent ==
    [][\A i \in DOMAIN runs' :
          /\ runs'[i].phase = "sampling"
                => dateNow' <= runs'[i].startTime + DEFAULT_TIMEOUT
          /\ (i \in DOMAIN runs /\ runs[i].timer = "armed"
                /\ runs'[i].timer = "fired" /\ runs[i].sampling = "pending")
                => /\ runs'[i].phase = "done"
                   /\ runs'[i].result.kind = "returned"
                   /\ ~runs'[i].result.success
                   /\ TimedOut(runs'[i])
                   /\ runs'[i].result.at = runs[i].startTime + DEFAULT_TIMEOUT
          /\ (i \in DOMAIN runs /\ runs[i].phase = "done")
                => runs'[i].result = runs[i].result]_vars

\* an execution was ended by the timer while the sampling request was pending
C14_TimedOutWhilePending ==
    \E i \in DOMAIN runs :
       /\ runs[i].timer = "fired"
       /\ runs[i].sampling = "pending"
       /\ runs[i].phase = "done"
       /\ dateNow > runs[i].startTime + DEFAULT_TIMEOUT

\* C16: account.functionCall is issued only for a sampling response with text
\* that won the race against the timer, once, with data_id the request id; a
\* response without text gives the "No valid response" failure and no
\* function call; a response that arrives after the timeout failure causes
\* no function call.
C16_ResponseOnlyForTextInTime ==
    \A i \in DOMAIN runs :
       LET run == runs[i] IN
       /\ Len(run.functionCalls) <= 1
       /\ run.functionCalls # << >>
             => /\ run.sampling = "text"
                /\ ~TimedOut(run)
                /\ run.functionCalls[1].data_id = run.requestId
       /\ run.sampling = "notext"
             => /\ run.functionCalls = << >>
                /\ run.phase = "done"
                /\ ~run.result.success
                /\ \/ run.result.error =
                         <<"No valid response from MCP client">>
                   \/ TimedOut(run)
       /\ TimedOut(run) => run.functionCalls = << >> /\ run.tx = "none"

\* a response with text has arrived after the timeout failure
C16_LateResponse ==
    \E i \in DOMAIN runs :
       /\ TimedOut(runs[i])
       /\ runs[i].sampling = "text"
       /\ account

\* C15: end to end, for a watched subscription and a block with one receipt
\* addressed to its contract whose transaction carries one matching log with
\* request id r: event:found is emitted once for r, one function call with
\* data_id = r is submitted and one successful ProcessingResult with
\* requestId r is produced, and never more than one of each; the function
\* call is for an event that was found, the success for a call that was made.
C15_OneEventOneResponse ==
    /\ \A key \in DOMAIN ledger :
          /\ ledger[key].found = 1
          /\ ledger[key].calls <= 1
          /\ ledger[key].succeeded <= ledger[key].calls
          /\ key[1] \in DOMAIN processingStates
          /\ key[2] \in Range(states[processingStates[key[1]]]
                                    .processedTransactionIds)
    /\ \A t \in BagToSet(tasks) :
          /\ CopiesIn(t, tasks) = 1
          /\ <<t.id, t.requestId>> \in DOMAIN ledger
          /\ ledger[<<t.id, t.requestId>>].succeeded = 0
          /\ ledger[<<t.id, t.requestId>>].calls =
                IF t.phase = "sending" THEN 1 ELSE 0

\* the event of a transaction with receipts in two blocks was found, answered
\* and the response accepted, after both blocks were processed
C15_FoundAnsweredOnce ==
    \E key \in DOMAIN ledger :
       /\ ledger[key] = [found |-> 1, calls |-> 1, succeeded |-> 1]
       /\ \E h \in 1..finalHeight :
             /\ ReceiptsAt(h, "c1") # << >>
             /\ ReceiptsAt(h - 1, "c1") # << >>
             /\ ReceiptsAt(h, "c1")[1].tx = key[2]
             /\ ReceiptsAt(h - 1, "c1")[1].tx = key[2]
             /\ states[processingStates[key[1]]].lastBlockHeight >= h

\* C17: a tick that fires while the in-flight flag of its subscription is set
\* starts no poll and leaves no trace: it does not call pollForEvents and
\* changes nothing, so when the poll in flight ends no poll starts; a poll
\* starts only in the step of a tick that finds the flag clear.
C17_SkippedTickNotRemembered ==
    [][/\ (last'.op = "tick" /\ last'.res = "skipped")
             => /\ isProcessing(last'.id)
                /\ UNCHANGED <<contracts, observe, finalHeight, authReady,
                               isInitialized, account, calls, clock,
                               subscriptions, jobs, processingStates, states,
                               polls, started, tasks, stopped, handling,
                               txLog, parsing, dateNow, runs, ledger, wired,
                               sweep, stats>>
       /\ (started' # started \/ ~(DOMAIN polls' \subseteq DOMAIN polls))
             => /\ last'.op = "pollForEvents" /\ last'.res = "started"
                /\ ~isProcessing(last'.id)
                /\ \E h \in DOMAIN jobs :
                      jobs[h].running /\ jobs[h].id = last'.id
                /\ Cardinality(DOMAIN polls') = Cardinality(DOMAIN polls) + 1
       /\ ~(last'.op = "pollForEvents" /\ last'.res = "busy")]_vars

\* a tick has been skipped for a subscription with a poll in flight
C17_TickSkipped ==
    /\ last.op = "tick"
    /\ last.res = "skipped"
    /\ \E p \in PollsOf(last.id) :
          polls[p].st = processingStates[last.id]

\* C18: when pollForEvents throws during a tick, the tick callback catches
\* the error and emits watcher:error; the registry and the cron tasks are as
\* before, and the in-flight flag of the execution that threw is clear, so
\* the next tick of a running task is not skipped and calls pollForEvents
\* again.
C18_ThrowingPollKeepsSchedule ==
    [][(last'.op = "pollForEvents" /\ last'.res = "threw")
          => /\ <<"watcher:error", last'.id>> \in last'.out
             /\ subscriptions' = subscriptions
             /\ jobs' = jobs
             /\ processingStates' = processingStates
             /\ \A p \in DOMAIN polls \ DOMAIN polls' :
                   /\ polls[p].id = last'.id
                   /\ polls[p].st \in DOMAIN states'
                         => ~states'[polls[p].st].isProcessing]_vars

\* a poll that had set the flag has thrown into the tick of a registered,
\* active subscription
C18_PollThrewInTick ==
    /\ last.op = "pollForEvents"
    /\ last.res = "threw"
    /\ last.id \in DOMAIN subscriptions
    /\ subscriptions[last.id].isActive
    /\ started > 0
    /\ last.id \in DOMAIN processingStates
    /\ ~isProcessing(last.id)
    /\ \E h \in DOMAIN jobs : jobs[h].id = last.id /\ jobs[h].running

C20_EveryPollStartsAfterCursor ==
    [][/\ (last'.op \in {"pauseWatching", "resumeWatching"}
              /\ last'.res = "true")
             => /\ last'.id \in DOMAIN subscriptions
                /\ subscriptions' =
                      [subscriptions EXCEPT ![last'.id].isActive =
                          (last'.op = "resumeWatching")]
                /\ processingStates' = processingStates
                /\ states' = states
                /\ polls' = polls
                /\ \A h \in DOMAIN jobs' :
                      jobs'[h].id = last'.id
                         => jobs'[h].running = (last'.op = "resumeWatching")
                /\ DOMAIN jobs' = DOMAIN jobs
                /\ subscriptions[last'.id].cronJob \in DOMAIN jobs
       /\ \A p \in DOMAIN polls \cap DOMAIN polls' :
             (polls[p].pc = "current" /\ polls'[p].pc = "batch")
                => LET st == polls[p].st
                       cursor == states[st].lastBlockHeight
                   IN /\ polls'[p].lo = cursor + 1
                      /\ polls'[p].hi =
                               Min(cursor + BATCH_SIZE, finalHeight)
                      /\ states'[st] = states[st]]_vars

\* C20: pauseWatching and resumeWatching keep the registry entry, the state
\* object with its cursor and dedup set and the polls in flight; they change
\* isActive and stop or start the cron task.  A poll that finds a cursor
\* (lastBlockHeight > 0) starts at cursor + 1 and leaves the state as it is,
\* so the blocks produced during a pause are scanned; a poll that finds none,
\* as after a pause that began before the first poll, anchors first.
C20_PauseResumeKeepsCursor ==
    [][/\ (last'.op \in {"pauseWatching", "resumeWatching"}
              /\ last'.res = "true")
             => /\ last'.id \in DOMAIN subscriptions
                /\ subscriptions' =
                      [subscriptions EXCEPT ![last'.id].isActive =
                          (last'.op = "resumeWatching")]
                /\ processingStates' = processingStates
                /\ states' = states
                /\ polls' = polls
                /\ \A h \in DOMAIN jobs' :
                      jobs'[h].id = last'.id
                         => jobs'[h].running = (last'.op = "resumeWatching")
                /\ DOMAIN jobs' = DOMAIN jobs
                /\ subscriptions[last'.id].cronJob \in DOMAIN jobs
       /\ \A p \in DOMAIN polls \cap DOMAIN polls' :
             (polls[p].pc = "current" /\ polls'[p].pc = "batch")
                => LET st == polls[p].st
                       cursor == states[st].lastBlockHeight
                   IN cursor > 0 =>
                         /\ polls'[p].lo = cursor + 1
                         /\ polls'[p].hi =
                               Min(cursor + BATCH_SIZE, finalHeight)
                         /\ states'[st] = states[st]]_vars

\* a subscription was resumed with blocks beyond its cursor
C20_ResumedBehind ==
    /\ last.op = "resumeWatching"
    /\ last.res = "true"
    /\ subscriptions[last.id].isActive
    /\ jobs[subscriptions[last.id].cronJob].running
    /\ states[processingStates[last.id]].lastBlockHeight
          \in 1..(finalHeight - 2)
    /\ ~isProcessing(last.id)

\* the subscription records of the registry that are the one of entry r
Registered(subs, r) ==
    {sub \in Range(subs) : sub.id = r.id /\ sub.createdAt = r.createdAt}

\* C21: stopAllWatching calls stopWatching for every subscription that was
\* active when it was called, whether or not an earlier stop failed, and
\* when it returns no subscription whose stop succeeded is registered
C21_StopAllStopsEveryActive ==
    [][sweep.op = "stopAllWatching" /\ sweep' = NoSweep
          => /\ Len(sweep.done) = Len(sweep.active)
             /\ \A i \in DOMAIN sweep.done :
                   /\ sweep.done[i].id = sweep.active[i].id
                   /\ sweep.done[i].createdAt = sweep.active[i].createdAt
                   /\ sweep.done[i].ok
                         => Registered(subscriptions', sweep.done[i]) = {}]_vars

\* stopAllWatching is about to return after a stop that failed and a later
\* one that succeeded
C21_FailedThenStopped ==
    /\ sweep.op = "stopAllWatching"
    /\ sweep.todo = << >>
    /\ Len(sweep.done) = 2
    /\ ~sweep.done[1].ok
    /\ sweep.done[2].ok
    /\ sweep.done[2].id \notin DOMAIN subscriptions

\* C22: when cleanup returns, no subscription is registered, the poller
\* holds no state and no schedule is running, on the first call and on every
\* later one
C22_CleanupLeavesNothing ==
    [][sweep.op = "cleanup" /\ sweep' = NoSweep
          => /\ subscriptions' = << >>
             /\ processingStates' = << >>
             /\ \A h \in DOMAIN jobs' : ~jobs'[h].running]_vars

\* C23: every event:found of the poller is handed to processEvent by the
\* watcher, also for a subscription watched after cleanup
C23_FoundIsForwarded ==
    \A id \in Ids :
       <<"event:found", id>> \in last.out
          => <<"processEvent", id>> \in last.out

\* C24: the stop tool answers "stopped" exactly when the subscription
\* existed and was removed, "not watching" exactly when none existed, and
\* "failed" when it existed but stopping failed
C24_ThreeAnswers ==
    [][last'.op = "stopWatching"
          => LET id == last'.id
                 answer == execute(last'.res)
                 existed == id \in DOMAIN subscriptions
                 removed == existed /\ id \notin DOMAIN subscriptions'
             IN /\ answer = "Successfully stopped watching" <=> removed
                /\ answer = "No active subscription found" <=> ~existed
                /\ existed /\ ~removed
                      => answer = "Failed to stop watching events"]_vars

\* the line the claim describes: the prefix, then a JSON object whose event
\* member is the watched name and whose data member is a non-empty array
Described(log, eventName) ==
    /\ log.head = "EVENT_JSON:"
    /\ log.text.t = "object"
    /\ DOMAIN log.text.fields = {"event", "data"}
    /\ log.text.fields.event = Str(eventName)
    /\ log.text.fields.data.t = "array"
    /\ log.text.fields.data.items # << >>

\* C25 as stated: one event for every line described, with payload data[0]
\* and requestId data[0].request_id; no event and no throw for any other
C25_ParseAsStated ==
    parsing.called =>
       /\ parsing.result.kind # "threw"
       /\ parsing.result.kind = "event"
             <=> Described(parsing.log, parsing.eventName)

\* C25: parseEventLog never throws; it answers an event exactly for the
\* lines described whose data[0] is not null, with payload data[0] and
\* requestId data[0].request_id (undefined if data[0] has no such member),
\* and null for every other line
C25_ParseEventLog ==
    parsing.called =>
       LET log == parsing.log
           r == parsing.result
           first == log.text.fields.data.items[1]
       IN /\ r.kind # "threw"
          /\ r.kind = "event"
                <=> Described(log, parsing.eventName) /\ first # Null
          /\ r.kind = "event"
                => /\ r.payload = first
                   /\ r.eventType = parsing.eventName
                   /\ r.requestId =
                         IF first.t = "object"
                            /\ "request_id" \in DOMAIN first.fields
                         THEN first.fields.request_id ELSE Undefined

\* a line as described whose data[0] is null was parsed: no event
C25_NullElement ==
    /\ parsing.called
    /\ Described(parsing.log, parsing.eventName)
    /\ parsing.log.text.fields.data.items[1] = Null
    /\ parsing.result = NoEvent

\* q is the quotient a / b of a count b > 0
Is(q, a, b) == q.d > 0 /\ q.n * b = a * q.d

\* C26: getStats of the watcher and of the processor report successRate 0
\* and averageProcessingTime 0 while nothing was processed, and otherwise
\* successful / processed * 100, which lies between 0 and 100, and the
\* cumulative processing time / processed
C26_RatesOfGetStats ==
    LET w == getStats(subscriptions, stats.watcher)
        p == EventProcessor_getStats(stats.processor)
    IN /\ IF stats.watcher.totalEventsProcessed = 0
          THEN w.successRate = Zero /\ w.averageProcessingTime = Zero
          ELSE /\ Is(w.successRate, stats.watcher.totalEventsSuccessful * 100,
                      stats.watcher.totalEventsProcessed)
               /\ 0 <= w.successRate.n
               /\ w.successRate.n <= 100 * w.successRate.d
               /\ Is(w.averageProcessingTime,
                      stats.watcher.totalProcessingTime,
                      stats.watcher.totalEventsProcessed)
       /\ IF stats.processor.totalProcessed = 0
          THEN p.successRate = Zero /\ p.averageProcessingTime = Zero
          ELSE /\ Is(p.successRate, stats.processor.successful * 100,
                      stats.processor.totalProcessed)
               /\ 0 <= p.successRate.n
               /\ p.successRate.n <= 100 * p.successRate.d
               /\ Is(p.averageProcessingTime,
                      stats.processor.totalProcessingTime,
                      stats.processor.totalProcessed)

\* one event succeeded and one failed, after some time: the rate is 50
C26_HalfSucceeded ==
    /\ stats.watcher.totalEventsProcessed = 2
    /\ stats.watcher.totalProcessingTime > 0
    /\ getStats(subscriptions, stats.watcher).successRate = Quotient(50, 1)
    /\ EventProcessor_getStats(stats.processor).successRate = Quotient(50, 1)

\* C27: getStats reports as totalSubscriptions the number of registered
\* subscriptions, active and paused, and as activeSubscriptions the number
\* of those with isActive = true
C27_TotalCountsRegistered ==
    LET reported == getStats(subscriptions, stats.watcher)
        active == {id \in DOMAIN subscriptions : subscriptions[id].isActive}
        paused == DOMAIN subscriptions \ active
    IN /\ reported.totalSubscriptions = Cardinality(DOMAIN subscriptions)
       /\ reported.activeSubscriptions = Cardinality(active)
       /\ reported.totalSubscriptions
             = Cardinality(active) + Cardinality(paused)

\* the number of event:found emissions so far
Found(led) == Sum([k \in DOMAIN led |-> led[k].found], DOMAIN led)

\* the processEvent executions that have just been started
Handed(bag) ==
    Sum([t \in BagToSet(bag) |->
            IF t.phase = "sampling" THEN CopiesIn(t, bag) ELSE 0],
        BagToSet(bag))

\* C28: a step starts as many processEvent executions as it emits
\* event:found, so each event found is handed to the processor once, and
\* no other step hands an event to it: none is processed again
C28_FoundHandedOnce ==
    [][Found(ledger') > Found(ledger) \/ Handed(tasks') > Handed(tasks)
          => Handed(tasks') - Handed(tasks)
                = Found(ledger') - Found(ledger)]_vars

\* C29: the cursor is the last fully processed height, so no step moves the
\* cursor of a subscription past a block of the batch in progress whose
\* block, chunk or receipt processing has just failed
C29_CursorStaysBehindFailedBlock ==
    [][last.op = "processBlock" /\ last.res # "ok"
          /\ last.id \in DOMAIN processingStates
          /\ last.id \in DOMAIN processingStates'
          => states'[processingStates'[last.id]].lastBlockHeight
                = states[processingStates[last.id]].lastBlockHeight]_vars

\* C30: the batch of a poll is at most BATCH_SIZE consecutive heights right
\* after the cursor; the next batch is issued only when every block of the
\* batch has completed, in the step that moves the cursor to its last
\* height, and starts at the height after it
C30_BatchByBatch ==
    [][\A p \in DOMAIN polls' :
          polls'[p].pc = "batch"
             => LET q == polls'[p]
                IN /\ q.lo <= q.hi
                   /\ q.hi - q.lo + 1 <= BATCH_SIZE
                   /\ q.pending \subseteq q.lo..q.hi
                   /\ states'[q.st].lastBlockHeight = q.lo - 1
                   /\ p \in DOMAIN polls /\ polls[p].pc = "batch"
                         /\ polls[p].lo # q.lo
                         => /\ polls[p].pending = {}
                            /\ q.lo = polls[p].hi + 1
                            /\ q.pending = q.lo..q.hi]_vars

\* a poll is within its second batch: the first BATCH_SIZE heights are done
C30_SecondBatch ==
    \E p \in DOMAIN polls :
       /\ polls[p].pc = "batch"
       /\ polls[p].blocksProcessed = BATCH_SIZE
       /\ polls[p].lo = states[polls[p].st].lastBlockHeight + 1
       /\ polls[p].pending # {}

\* ---------------------------------------------------------------- liveness
\* the pollForEvents execution p goes on: a call it awaits returns or fails
PollStep(p) ==
    /\ p \in DOMAIN polls
    /\ \/ \E a \in {"block", "none", "error"} : GotCurrentBlock(p, a)
       \/ \E h \in polls[p].pending, o \in Outcomes : BlockDone(p, h, o)
       \/ BatchJoin(p)

\* every call a poll awaits settles, and a schedule that runs keeps ticking:
\* a tick that would start a poll is not put off for ever
Settling ==
    /\ \A p \in 1..MaxPolls : WF_vars(PollStep(p))
    /\ \A h \in 1..MaxWatch : WF_vars(Tick(h))

\* the watcher with its schedule and its poller; the processEvent executions
\* the listener of event:found starts are not awaited by the poll
NextLive == BlockProduced \/ Registry \/ Schedule \/ Poller

SpecLive == Init /\ [][NextLive]_vars /\ Settling

\* the state objects a run creates
Refs == 1..(MaxWatch + MaxPolls)

\* the in-flight flag of the state object ref is set
InFlight(ref) == ref \in DOMAIN states /\ states[ref].isProcessing

\* the subscription id is registered and active and its schedule runs (and
\* the run has polls left)
Ticking(id) ==
    /\ id \in DOMAIN subscriptions
    /\ subscriptions[id].isActive
    /\ subscriptions[id].cronJob \in DOMAIN jobs
    /\ jobs[subscriptions[id].cronJob].running
    /\ started < MaxPolls

\* C31: every poll that starts runs to its end and releases the in-flight
\* flag, given that every call it awaits returns or fails; and a registered,
\* active subscription whose schedule runs and that has no poll in flight is
\* polled again.  (P ~> ~P is written []<>~P.)
C31_PollEndsAndIsFollowed ==
    /\ \A ref \in Refs : []<>~InFlight(ref)
    /\ \A p \in 1..MaxPolls : []<>(p \notin DOMAIN polls)
    /\ \A id \in Ids : []<>(Ticking(id) => PollsOf(id) # {})

\* the one subscription of the run is in its second poll, the first having
\* ended
C31_PolledAgain ==
    /\ started = 2
    /\ clock = 2
    /\ Cardinality(DOMAIN polls) = 1
    /\ \E id \in DOMAIN subscriptions : PollsOf(id) # {} /\ isProcessing(id)

\* ------------------------------------------------------------- statistics
\* from the block to the response transaction with the statistics kept, on a
\* watcher as constructed or as cleanup() has left it
SpecStats ==
    /\ \E attached \in BOOLEAN :
          InitWith({"c1"}, {<<"stats", "*">>, <<"ledger", "*">>}, attached)
    /\ [][NextWatched \/ Processor]_vars

\* C32: every event:found raises the detected counter, stamps lastEventAt
\* and starts processEvent in the step of its emission; the end of every
\* processEvent raises the processed counter by one; and in every state
\* totalEventsProcessed = totalEventsSuccessful + totalEventsFailed and
\* totalEventsProcessed <= totalEventsDetected.
C32_DetectedThenProcessed ==
    /\ [][LET n == Found(ledger') - Found(ledger)
          IN n > 0 =>
                /\ stats'.watcher.totalEventsDetected
                       = stats.watcher.totalEventsDetected + n
                /\ BagCardinality(tasks') = BagCardinality(tasks) + n
                /\ \A id \in DOMAIN subscriptions :
                      subscriptions'[id].lastEventAt = clock]_vars
    /\ [][BagCardinality(tasks') < BagCardinality(tasks) =>
             stats'.watcher.totalEventsProcessed
                 = stats.watcher.totalEventsProcessed + 1]_vars
    /\ [](/\ stats.watcher.totalEventsProcessed
                = stats.watcher.totalEventsSuccessful
                      + stats.watcher.totalEventsFailed
          /\ stats.watcher.totalEventsProcessed
                <= stats.watcher.totalEventsDetected)

\* the lifecycle events of a processEvent call that runs to its success
Lifecycle ==
    << "event:mcp-request", "event:mcp-response",
       "event:blockchain-response", "event:processed" >>

\* the runs of processEvent that have returned
Returned == {i \in DOMAIN runs : runs[i].phase = "done"}

\* C33: the lifecycle events of every processEvent call are emitted in the
\* order request, response, blockchain response, success, or a prefix of
\* that order (the request at least) followed by the failure; a call that
\* has returned has emitted exactly one of success and failure, and nothing
\* after it, a call still running neither; and the processed counter of the
\* Processor is the number of calls that have returned.
C33_LifecycleInOrder ==
    /\ \A i \in DOMAIN runs :
          LET e == runs[i].emitted
              finals == {k \in 1..Len(e) :
                            e[k] \in {"event:processed",
                                      "event:processing-error"}}
          IN /\ \/ \E k \in 1..4 : e = SubSeq(Lifecycle, 1, k)
                \/ \E k \in 1..2 :
                      e = Append(SubSeq(Lifecycle, 1, k),
                                 "event:processing-error")
             /\ finals = IF i \in Returned THEN {Len(e)} ELSE {}
    /\ stats.processor.totalProcessed = Cardinality(Returned)
    /\ stats.processor.totalProcessed
          = stats.processor.successful + stats.processor.failed

\* one call has gone through the whole lifecycle and another has failed
\* after the response was received
C33_SuccessAndLateFailure ==
    \E i, j \in Returned :
       /\ runs[i].emitted = Lifecycle
       /\ runs[j].emitted = << "event:mcp-request", "event:mcp-response",
                               "event:processing-error" >>

\* C34: the dedup set of a subscription state never holds more than
\* DEDUP_HIGH_WATER ids between two steps of receipt handling; an insertion
\* appends the new id, and one that would take the set above the mark leaves
\* exactly the DEDUP_KEEP most recently added ids, the new id the last.
C34_DedupSetCapped ==
    /\ [](Len(Seen) <= DEDUP_HIGH_WATER)
    /\ [][Seen' # Seen =>
             \E tx \in Txs :
                LET s == Append(Seen, tx)
                IN /\ ~SeqHas(Seen, tx)
                   /\ IF Len(Seen) < DEDUP_HIGH_WATER
                      THEN Seen' = s
                      ELSE /\ Len(Seen') = DEDUP_KEEP
                           /\ \A k \in 1..DEDUP_KEEP :
                                 Seen'[k] = s[Len(s) - DEDUP_KEEP + k]
                           /\ Seen'[DEDUP_KEEP] = tx]_vars

\* an insertion into a set at the mark has evicted the oldest ids
C34_Evicted ==
    /\ Len(Seen) = DEDUP_KEEP
    /\ Seen[DEDUP_KEEP] \in Txs
    /\ Seen[1] = Filled(1)[DEDUP_HIGH_WATER - DEDUP_KEEP + 2]

\* ------------------------------------------------------------ independence
\* the watcher after watchEvent has succeeded for the event of each of two
\* contracts, before the first tick
InitPair ==
    /\ contracts = Contracts
    /\ observe = {}
    /\ finalHeight = 1
    /\ authReady = TRUE
    /\ isInitialized = TRUE
    /\ account = TRUE
    /\ calls = << NoCall >>
    /\ clock = 3
    /\ subscriptions =
          [id \in Ids |->
              IF id = "c1:ping"
              THEN [NewSubscription("c1", "ping", 1) EXCEPT !.cronJob = 1]
              ELSE [NewSubscription("c2", "ping", 2) EXCEPT !.cronJob = 2]]
    /\ jobs = [h \in {1, 2} |->
                  [id |-> IF h = 1 THEN "c1:ping" ELSE "c2:ping",
                   contractId |-> IF h = 1 THEN "c1" ELSE "c2",
                   eventName |-> "ping", running |-> TRUE]]
    /\ processingStates = [id \in Ids |-> IF id = "c1:ping" THEN 1 ELSE 2]
    /\ states = [ref \in {1, 2} |-> NewState]
    /\ polls = <<>>
    /\ started = 0
    /\ tasks = EmptyBag
    /\ stopped = {}
    /\ handling = EmptyBag
    /\ parsing = NoParse
    /\ txLog = <<>>
    /\ dateNow = 0
    /\ runs = <<>>
    /\ ledger = <<>>
    /\ wired = TRUE
    /\ sweep = NoSweep
    /\ stats = NoStats
    /\ last = Quiet

\* the operations on subscriptions that are registered, their schedules,
\* polls and event processing
NextPair ==
    BlockProduced \/ Stop \/ PauseResume \/ Schedule \/ Poller \/ Processor

SpecPair == InitPair /\ [][NextPair]_vars

\* the registry entry of id, if any
Entry(id) ==
    IF id \in DOMAIN subscriptions THEN << subscriptions[id] >> ELSE << >>

\* the Poller state of id, if any: cursor, dedup set and in-flight flag
StateOf(id) ==
    IF id \in DOMAIN processingStates
    THEN << states[processingStates[id]] >> ELSE << >>

\* a step of an operation on the subscription id: stop, pause, resume, a
\* tick, a step of one of its polls or of the processing of one of its events
OperationOn(id) ==
    \/ \E c \in contracts, e \in EventNames, f \in {"none", "cron"} :
          /\ generateSubscriptionId(c, e) = id
          /\ \/ StopWatching(c, e, f)
             \/ pauseWatching(c, e)
             \/ resumeWatching(c, e)
    \/ \E h \in DOMAIN jobs : jobs[h].id = id /\ Tick(h)
    \/ \E p \in PollsOf(id) : PollStep(p)
    \/ \E t \in BagToSet(tasks) :
          /\ t.id = id
          /\ \/ \E o \in {"text", "notext", "error", "timeout"} :
                   SamplingDone(t, o)
             \/ \E ok \in BOOLEAN : ResponseDone(t, ok)

\* C35: a step of an operation on one subscription (stop, pause, resume, a
\* tick, its poll, the processing of its event, failing or not) leaves the
\* registry entry and the Poller state (cursor, dedup set, in-flight flag) of
\* every other subscription as they are; and the flag a tick of a
\* subscription tests is set only while a poll of that subscription, on that
\* state, is in flight.
C35_SubscriptionsIndependent ==
    /\ [][\A a \in Ids, b \in Ids :
             (a # b /\ OperationOn(a)) =>
                 /\ Entry(b)' = Entry(b)
                 /\ StateOf(b)' = StateOf(b)]_vars
    /\ [](\A b \in Ids :
             isProcessing(b) =>
                 \E p \in PollsOf(b) : polls[p].st = processingStates[b])

\* polls of both subscriptions are in flight at once, and the one of c1 has
\* moved its cursor
C35_BothPolling ==
    /\ PollsOf("c1:ping") # {}
    /\ PollsOf("c2:ping") # {}
    /\ isProcessing("c1:ping") /\ isProcessing("c2:ping")
    /\ StateOf("c1:ping")[1].lastBlockHeight > 0
    /\ StateOf("c2:ping")[1].lastBlockHeight = 0

\* no operation of the watcher is in the middle of executing
Quiescent == PendingCalls = {} /\ sweep = NoSweep

\* C36: whenever no watcher operation is in the middle of executing, the
\* ids of the registry are the ids the Poller holds a processing state for.
C36_RegistryMatchesPoller ==
    Quiescent => DOMAIN subscriptions = DOMAIN processingStates

\* --------------------------------------------------------- block heights
\* a subscription that is watched, stopped, watched again, paused and
\* resumed on a chain that runs one block further, with the processBlock
\* calls of every state object kept
NextHeights ==
    ProduceBlock(MaxHeight + 1) \/ Registry \/ Schedule \/ Poller

SpecHeights == InitObserving({<<"blocks", "*">>}) /\ [][NextHeights]_vars

\* the polls in flight that work on the state object ref
PollsOn(ref) == {p \in DOMAIN polls : polls[p].st = ref}

\* C37: for every subscription state, the heights processBlock has been
\* called for are consecutive, each once, from the height after the anchor
\* (the cursor in the step of the first call) on; the cursor lies within them
\* and is the last of them when no poll is in flight on the state.
C37_EachHeightOnce ==
    /\ [](\A ref \in DOMAIN states :
             LET b == states[ref].blocks
                 cursor == states[ref].lastBlockHeight
             IN b # << >> =>
                   /\ \A k \in 1..Len(b) : b[k] = b[1] + k - 1
                   /\ b[1] - 1 <= cursor
                   /\ cursor <= b[Len(b)]
                   /\ PollsOn(ref) = {} => cursor = b[Len(b)])
    /\ [][\A ref \in DOMAIN states :
             (ref \in DOMAIN states' /\ states[ref].blocks = << >>
                  /\ states'[ref].blocks # << >>) =>
                 states'[ref].blocks[1] = states'[ref].lastBlockHeight + 1]_vars

\* a second poll has taken a state on from where the first left it, over two
\* heights
C37_TwoPollsThreeHeights ==
    \E ref \in DOMAIN states :
       /\ Len(states[ref].blocks) = 3
       /\ states[ref].lastBlockHeight = states[ref].blocks[3]
       /\ started = 2

\* ------------------------------------------------------- overlapping calls
\* a watcher that two callers use at once: two watchEvent calls can be
\* suspended at the same time; the request and the answer of each are kept
InitOverlap ==
    /\ contracts = {"c1"}
    /\ observe = {<<"calls", "*">>}
    /\ finalHeight = 1
    /\ authReady = FALSE
    /\ isInitialized = FALSE
    /\ account = FALSE
    /\ calls = << NoCall, NoCall >>
    /\ clock = 1
    /\ subscriptions = <<>>
    /\ jobs = <<>>
    /\ processingStates = <<>>
    /\ states = <<>>
    /\ polls = <<>>
    /\ started = 0
    /\ tasks = EmptyBag
    /\ stopped = {}
    /\ handling = EmptyBag
    /\ parsing = NoParse
    /\ txLog = <<>>
    /\ dateNow = 0
    /\ runs = <<>>
    /\ ledger = <<>>
    /\ wired = TRUE
    /\ sweep = NoSweep
    /\ stats = NoStats
    /\ last = Quiet

NextOverlap == BlockProduced \/ Watch \/ Schedule \/ Poller

SpecOverlap == InitOverlap /\ [][NextOverlap]_vars

\* the registry entries of the pair of the call in slot s
EntriesOf(s) ==
    {i \in DOMAIN subscriptions :
        /\ subscriptions[i].contractId = calls[s].contractId
        /\ subscriptions[i].eventName = calls[s].eventName}

\* the running schedules of the pair of the call in slot s
RunningOf(s) ==
    {h \in DOMAIN jobs : /\ jobs[h].contractId = calls[s].contractId
                         /\ jobs[h].eventName = calls[s].eventName
                         /\ jobs[h].running}

\* slots s and t hold two calls for one pair that were suspended together
\* before either had registered, and both have been answered
RaceOver(s, t) ==
    /\ s # t
    /\ calls[s].overlap /\ calls[t].overlap
    /\ calls[s].pc = "idle" /\ calls[t].pc = "idle"
    /\ calls[s].contractId = calls[t].contractId
    /\ calls[s].eventName = calls[t].eventName

\* C38: of two watchEvent calls for one pair that were suspended together in
\* initialize() before either had registered, never both succeed and never
\* both are rejected as duplicates; when initialization passed for both and
\* the schedule started, exactly one succeeds and the other fails as a
\* duplicate; after a success exactly one registry entry and exactly one
\* running schedule exist for the pair, and never more than one of either.
C38_OneOfTwoOverlappingWins ==
    \A s \in DOMAIN calls, t \in DOMAIN calls :
       RaceOver(s, t) =>
          /\ ~(calls[s].res = "ok" /\ calls[t].res = "ok")
          /\ ~(calls[s].res = "duplicate" /\ calls[t].res = "duplicate")
          /\ {calls[s].res, calls[t].res} \subseteq {"ok", "duplicate"} =>
                {calls[s].res, calls[t].res} = {"ok", "duplicate"}
          /\ calls[s].res = "duplicate" => calls[t].res = "ok"
          /\ Cardinality(EntriesOf(s)) <= 1
          /\ Cardinality(RunningOf(s)) <= 1
          /\ "ok" \in {calls[s].res, calls[t].res} =>
                /\ Cardinality(EntriesOf(s)) = 1
                /\ Cardinality(RunningOf(s)) = 1

\* two calls were suspended together; the second to be called ran its
\* duplicate check first and won, the first was rejected
C38_SecondCallerWon ==
    /\ RaceOver(1, 2)
    /\ calls[1].res = "duplicate"
    /\ calls[2].res = "ok"

\* ------------------------------------------------- failed status fetches
\* C39: every transaction hash in the dedup set of a subscription has had
\* its logs scanned, or its scan is still in progress: a transaction whose
\* status fetch failed is not left marked as seen.
C39_SeenWasScanned ==
    \A tx \in Txs :
       (SeqHas(Seen, tx) /\ Scanning(handling, tx) = 0) =>
          txLog[tx].scans >= 1

\* ------------------------------------------------------------ registry key
\* callers that name contract ids and event names with and without the
\* separator of the subscription id; watchEvent and stopWatching take any
\* two strings
KeyContracts == {"a", "a:b"}

KeyEvents == {"c", "b:c"}

InitKeys == InitWith(KeyContracts, {}, TRUE)

WatchKeys ==
    \/ \E s \in DOMAIN calls, c \in contracts, e \in KeyEvents :
          WatchEvent(s, c, e)
    \/ \E s \in DOMAIN calls, ok \in BOOLEAN : AuthDone(s, ok)
    \/ \E s \in DOMAIN calls, ok \in BOOLEAN : ValidateDone(s, ok)
    \/ \E s \in DOMAIN calls, k \in BOOLEAN : WatchBody(s, k)

StopKeys ==
    \E c \in contracts, e \in KeyEvents, f \in {"none", "cron"} :
       StopWatching(c, e, f)

NextKeys == BlockProduced \/ WatchKeys \/ StopKeys \/ Schedule \/ Poller

SpecKeys == InitKeys /\ [][NextKeys]_vars

\* the ids of the registry entries for exactly this pair
EntriesFor(subs, contractId, eventName) ==
    {i \in DOMAIN subs : /\ subs[i].contractId = contractId
                         /\ subs[i].eventName = eventName}

\* C40: the registry key is injective on pairs: the pair of a watchEvent
\* call and a different registered pair never have the same subscription
\* id; watchEvent for a pair that has no registry
\* entry registers the pair when initialization and the schedule start
\* succeed; stopWatching for a pair removes no entry of another pair.
C40_KeyInjectiveOnPairs ==
    /\ [](\A s \in PendingCalls, i \in DOMAIN subscriptions :
             generateSubscriptionId(calls[s].contractId, calls[s].eventName)
                = generateSubscriptionId(subscriptions[i].contractId,
                                         subscriptions[i].eventName) =>
                /\ calls[s].contractId = subscriptions[i].contractId
                /\ calls[s].eventName = subscriptions[i].eventName)
    /\ [][/\ \A s \in DOMAIN calls :
                (/\ WatchBody(s, TRUE)
                 /\ EntriesFor(subscriptions, calls[s].contractId,
                               calls[s].eventName) = {}) =>
                   EntriesFor(subscriptions', calls[s].contractId,
                              calls[s].eventName) # {}
          /\ \A c \in contracts, e \in KeyEvents, f \in {"none", "cron"} :
                StopWatching(c, e, f) =>
                   \A i \in DOMAIN subscriptions :
                      i \notin EntriesFor(subscriptions, c, e) =>
                         i \in DOMAIN subscriptions']_vars

====
